---- MODULE Spec2Model ----
(***************************************************************************)
(* A model of the MCP guardrails validation engine: the policy validator   *)
(* (audit check, payload extraction, scanner fan-out), the MCP processor   *)
(* that reports threats, the rate-limit validator over the shared KV       *)
(* store, and the local PII / regex validators.                            *)
(*                                                                         *)
(* Strings of the program that the model inspects are kept as sequences of *)
(* tokens (a text) or as sequences of string fragments (a message built    *)
(* from a template); a value that is absent in the program (undefined) is  *)
(* the empty sequence or the empty string.                                 *)
(***************************************************************************)
EXTENDS Integers, Sequences, FiniteSets, TLC

VARIABLES
    mode,         \* which component this behaviour exercises
    pc,           \* position of the processor call: idle, scanning, done
    input,        \* the call's arguments (payload, context, policies, processor)
    scanText,     \* extractedPayload handed to the scanner client
    tasks,        \* scannerTasks collected from the policies
    calls,        \* state of each callSingleScanAPI promise
    elapsed,      \* milliseconds since the scan's timer was started
    posts,        \* number of POSTs issued to the scanner endpoint
    scanResp,     \* ScanResponse returned by ScannerClient.scan
    valResult,    \* ValidationResult returned by the validator
    procResult,   \* ProcessResult returned by the processor
    reports,      \* number of reportThreatAsync calls made by the call
    threw,        \* the call raised an exception to its caller
    cfg,          \* the rate-limit config of the deployment
    kv,           \* the rate-limit KV store: key -> cell
    now,          \* the wall clock (Date.now()), in milliseconds
    rl,           \* per caller: position and locals of checkRateLimit
    hist,         \* outcomes of the completed rate-limit checks, in order
    lastIndex,    \* lastIndex of each shared global PII RegExp
    lv,           \* last call of a local validator: its arguments and result
    batch,        \* handleBatchValidation: its records, position and results
    auditCall,    \* last call of the audit validator: its arguments and result
    cidrCall,     \* last call of isIPInCIDR: its arguments and result
    meta,         \* the metadata auditor: its tools, promises and reports
    threatPost,   \* reportThreatAsync: the detached POST and the caller's result
    fetchCall,    \* last call of a policy-manager fetch: response and outcome
    ingress       \* last request to an ingress endpoint and what it did

vars == <<mode, pc, input, scanText, tasks, calls, elapsed, posts, scanResp,
          valResult, procResult, reports, threw, cfg, kv, now, rl, hist,
          lastIndex, lv, batch, auditCall, cidrCall, meta, threatPost,
          fetchCall, ingress>>

pvVars == <<pc, input, scanText, tasks, calls, elapsed, posts, scanResp,
            valResult, procResult, reports, threw>>
rlVars == <<cfg, kv, now, rl, hist>>
lvVars == <<lastIndex, lv>>
auxVars == <<batch, auditCall, cidrCall>>
sideVars == <<meta, threatPost, fetchCall, ingress>>

(***************************************************************************)
(* Values                                                                  *)
(***************************************************************************)

\* A text: the tokens it holds, how the program framed it, and whether it
\* is longer than MAX_REQUEST_BODY_SIZE characters.
Text(frame, tokens, long) == [frame |-> frame, tokens |-> tokens, long |-> long]

\* The empty text: the program's empty string or an absent payload.
NoText == Text("none", <<>>, FALSE)

\* A reason that is undefined.
NoReason == <<>>

\* A message is a sequence of string fragments; it is the empty string
\* exactly when every fragment is.
NonEmptyMsg(m) == \E i \in DOMAIN m : m[i] # ""

\* ValidationResult (types/mcp): optional members are "" / NoText / NoReason.
Result(allowed, modified, modifiedPayload, reason, policyId, scanner, risk) ==
    [allowed |-> allowed, modified |-> modified,
     modifiedPayload |-> modifiedPayload, reason |-> reason,
     policy_id |-> policyId, scanner |-> scanner, risk_score |-> risk]

AllowResult == Result(TRUE, FALSE, NoText, NoReason, "", "", "")

\* "No result": a validator returned null.
NullResult == [AllowResult EXCEPT !.policy_id = "null"]

IsNull(r) == r.policy_id = "null"

\* A raw payload string: what JSON.parse makes of it (kind), and for a JSON
\* object its method, whether it has params, and the members of params.
Payload(kind, method, hasParams, name, uri, content, big) ==
    [kind |-> kind, method |-> method, hasParams |-> hasParams, name |-> name,
     uri |-> uri, content |-> content, big |-> big]

EmptyPayload == Payload("empty", "", FALSE, "", "", <<>>, FALSE)

\* FilterRule and Policy (types/mcp).
Rule(type, pattern, action) == [type |-> type, pattern |-> pattern, action |-> action]

Policy(id, active, requestRules, responseRules) ==
    [id |-> id, active |-> active, requestPayload |-> requestRules,
     responsePayload |-> responseRules]

(***************************************************************************)
(* policy-validator.ts: safe methods and payload extraction                *)
(***************************************************************************)

SAFE_MCP_METHODS ==
    {"initialize", "initialized", "ping", "$/cancelRequest", "$/progress",
     "notifications/initialized", "notifications/cancelled",
     "notifications/progress"}

isSafeMCPMethodNoPing(method) == method \in SAFE_MCP_METHODS \ {"ping"}

isSafeMCPMethod(method) == method \in SAFE_MCP_METHODS

\* Tokens of a params object, in member order.
ParamTokens(p) ==
    (IF p.name # "" THEN <<p.name>> ELSE <<>>)
    \o (IF p.uri # "" THEN <<p.uri>> ELSE <<>>)
    \o p.content

\* The raw payload string as a text.
PayloadText(p) ==
    CASE p.kind = "empty" -> NoText
      [] p.kind = "json" ->
            Text("payload",
                 (IF p.method # "" THEN <<p.method>> ELSE <<>>)
                 \o (IF p.hasParams THEN ParamTokens(p) ELSE <<>>),
                 p.big)
      [] OTHER -> Text("payload", p.content, p.big)

\* A payload is big through the content it carries: a text that leaves the
\* content out is short.
extractFromParams(p) ==
    CASE p.method = "tools/call" ->
            IF p.name # "" /\ p.content # <<>>
            THEN Text("tool", <<p.name>> \o p.content, p.big)
            ELSE IF p.name # ""
            THEN Text("tool", <<p.name>>, FALSE)
            ELSE PayloadText(p)
      [] p.method \in {"sampling/createMessage", "prompts/get"} ->
            IF p.content # <<>>
            THEN Text("fields", p.content, p.big)
            ELSE PayloadText(p)
      [] p.method = "resources/read" ->
            IF p.uri # ""
            THEN Text("fields", <<p.uri>>, FALSE)
            ELSE PayloadText(p)
      [] OTHER -> Text("fields", ParamTokens(p), p.big)

extractUserControlledFields(p) ==
    IF p.kind = "empty" THEN NoText
    ELSE IF p.kind \in {"text", "jsonnull"} THEN PayloadText(p)
    ELSE IF p.method = "" THEN PayloadText(p)
    ELSE IF isSafeMCPMethod(p.method) THEN NoText
    ELSE IF ~p.hasParams THEN PayloadText(p)
    ELSE extractFromParams(p)

(***************************************************************************)
(* 32-bit integer arithmetic of the IP checks.  A 32-bit value is kept as  *)
(* its four bytes, most significant first.                                 *)
(***************************************************************************)

Pow2(n) == IF n <= 0 THEN 1 ELSE 2 ^ n

RECURSIVE AndBits(_, _, _)
AndBits(a, b, n) ==
    IF n = 0 THEN 0
    ELSE (IF a % 2 = 1 /\ b % 2 = 1 THEN 1 ELSE 0)
         + 2 * AndBits(a \div 2, b \div 2, n - 1)

\* a & b.
BitAnd32(a, b) == [i \in 1..4 |-> AndBits(a[i], b[i], 8)]

\* (acc << 8) + octet, for an octet of 0..255.
Shl8Add(acc, octet) == <<acc[2], acc[3], acc[4], octet>>

\* 2 ** n - 1 for n in 0..32: the low n bits set.  The value is below
\* 2 ** 32, so ToInt32 keeps its 32 bits.
Pow2MinusOne(n) ==
    [i \in 1..4 |->
        LET k == n - 8 * (4 - i)
            ones == IF k < 0 THEN 0 ELSE IF k > 8 THEN 8 ELSE k
        IN Pow2(ones) - 1]

\* ~a.
BitNot32(a) == [i \in 1..4 |-> 255 - a[i]]

\* ~((1 << (32 - bits)) - 1): the shift count is taken modulo 32, so a
\* prefix length of 0 gives the mask of 32.
CidrMaskShift(bits) == BitNot32(Pow2MinusOne((32 - bits) % 32))

\* ~(2 ** (32 - bits) - 1): the top `bits` bits set.
CidrMask(bits) == BitNot32(Pow2MinusOne(32 - bits))

(***************************************************************************)
(* AuditValidator                                                          *)
(***************************************************************************)

AUDIT_POLICY_CATEGORY == "AuditPolicy"

\* remarks.trim().toLowerCase() over the remarks strings of the model.
TrimLower(s) ==
    CASE s \in {"approved", "Approved", " approved "} -> "approved"
      [] s \in {"rejected", "Rejected", " REJECTED "} -> "rejected"
      [] s \in {"conditionally approved", "Conditionally Approved"} ->
            "conditionally approved"
      [] OTHER -> s

\* An IP address is its sequence of four octets; an unset ip is <<>>.
NoIP == <<>>

RECURSIVE ipFold(_, _, _)
ipFold(ip, i, acc) ==
    IF i > Len(ip) THEN acc ELSE ipFold(ip, i + 1, Shl8Add(acc, ip[i]))

ipToNumber(ip) == ipFold(ip, 1, <<0, 0, 0, 0>>)

\* A CIDR range is [addr, bits]; bits < 0 stands for a range without "/bits".
isIPInCIDR(ip, cidr) ==
    IF cidr.bits < 0 THEN FALSE
    ELSE LET mask == CidrMask(cidr.bits)
         IN BitAnd32(ipToNumber(ip), mask)
                = BitAnd32(ipToNumber(cidr.addr), mask)

\* Only the exact addresses are compared.
isIPAllowedExactOnly(clientIP, allowedIPs, allowedIPRanges) ==
    \E i \in DOMAIN allowedIPs : clientIP = allowedIPs[i]

isIPAllowed(clientIP, allowedIPs, allowedIPRanges) ==
    \/ \E i \in DOMAIN allowedIPs : clientIP = allowedIPs[i]
    \/ \E i \in DOMAIN allowedIPRanges : isIPInCIDR(clientIP, allowedIPRanges[i])

AuditBlock(reason) ==
    Result(FALSE, FALSE, NoText, <<reason>>, AUDIT_POLICY_CATEGORY, "", "")

\* A policy without approvalConditions is taken as having none to fail.
validateConditionalApprovalLenient(policy, ctx) ==
    IF ~policy.hasConditions
    THEN AllowResult
    ELSE IF policy.expiresAt > 0 /\ ctx.nowSec > policy.expiresAt
    THEN AuditBlock("Conditional approval has expired")
    ELSE IF /\ ctx.ip # NoIP
            /\ (Len(policy.allowedIps) > 0 \/ Len(policy.allowedIpRanges) > 0)
            /\ ~isIPAllowed(ctx.ip, policy.allowedIps, policy.allowedIpRanges)
    THEN AuditBlock("Client IP is not in the allowed list")
    ELSE AllowResult

\* The IP allow-list is evaluated before the expiry.
validateConditionalApprovalIpFirst(policy, ctx) ==
    IF ~policy.hasConditions
    THEN AuditBlock("No approval conditions defined")
    ELSE IF /\ ctx.ip # NoIP
            /\ (Len(policy.allowedIps) > 0 \/ Len(policy.allowedIpRanges) > 0)
            /\ ~isIPAllowed(ctx.ip, policy.allowedIps, policy.allowedIpRanges)
    THEN AuditBlock("Client IP is not in the allowed list")
    ELSE IF policy.expiresAt > 0 /\ ctx.nowSec > policy.expiresAt
    THEN AuditBlock("Conditional approval has expired")
    ELSE AllowResult

validateConditionalApproval(policy, ctx) ==
    IF ~policy.hasConditions
    THEN AuditBlock("No approval conditions defined")
    ELSE IF policy.expiresAt > 0 /\ ctx.nowSec > policy.expiresAt
    THEN AuditBlock("Conditional approval has expired")
    ELSE IF /\ ctx.ip # NoIP
            /\ (Len(policy.allowedIps) > 0 \/ Len(policy.allowedIpRanges) > 0)
            /\ ~isIPAllowed(ctx.ip, policy.allowedIps, policy.allowedIpRanges)
    THEN AuditBlock("Client IP is not in the allowed list")
    ELSE IF Len(policy.whitelistedEndpoints) > 0
    THEN AllowResult   \* console.warn: the check is not implemented
    ELSE AllowResult

validateWithPolicyNoReason(policy, ctx) ==
    LET remarksLower == TrimLower(policy.remarks) IN
    CASE remarksLower = "approved" -> AllowResult
      [] remarksLower = "rejected" ->
            Result(FALSE, FALSE, NoText, NoReason, AUDIT_POLICY_CATEGORY, "", "")
      [] remarksLower = "conditionally approved" ->
            validateConditionalApproval(policy, ctx)
      [] OTHER -> AllowResult

validateWithPolicy(policy, ctx) ==
    LET remarksLower == TrimLower(policy.remarks) IN
    CASE remarksLower = "approved" -> AllowResult
      [] remarksLower = "rejected" ->
            AuditBlock("Resource access has been rejected by Audit Policy")
      [] remarksLower = "conditionally approved" ->
            validateConditionalApproval(policy, ctx)
      [] OTHER -> AllowResult

extractResourceName(p) ==
    IF p.method = "" \/ ~p.hasParams THEN ""
    ELSE CASE p.method \in {"tools/call", "prompts/get"} -> p.name
           [] p.method = "resources/read" -> p.uri
           [] OTHER -> ""

\* toLowerCase over the server names of the model.
LowerName(s) == IF s = "Srv" THEN "srv" ELSE s

\* auditPolicies?.[key]: the policy stored under key, or an absent one.
NoAuditPolicy ==
    [present |-> FALSE, remarks |-> "", hasConditions |-> FALSE,
     expiresAt |-> 0, allowedIps |-> <<>>, allowedIpRanges |-> <<>>,
     whitelistedEndpoints |-> <<>>]

Lookup(map, key) == IF key \in DOMAIN map THEN map[key] ELSE NoAuditPolicy

\* The server-level policy is not consulted.
auditValidateRequestNoServer(p, ctx) ==
    IF p.kind # "json" THEN NullResult
    ELSE LET resourceName == extractResourceName(p)
             policy == Lookup(ctx.auditPolicies, resourceName)
         IN IF resourceName = "" THEN NullResult
            ELSE IF ~policy.present THEN NullResult
            ELSE validateWithPolicy(policy, ctx)

\* AuditValidator.validateRequest for a payload that JSON.parse accepts as
\* an object; the result is NullResult when audit does not apply.
auditValidateRequest(p, ctx) ==
    IF p.kind # "json" THEN NullResult
    ELSE LET resourceName == extractResourceName(p)
             serverPolicy == Lookup(ctx.auditPolicies, LowerName(ctx.mcpServerName))
             serverResult == validateWithPolicy(serverPolicy, ctx)
             policy == Lookup(ctx.auditPolicies, resourceName)
         IN IF resourceName = "" THEN NullResult
            ELSE IF /\ ctx.mcpServerName # ""
                    /\ serverPolicy.present
                    /\ ~serverResult.allowed
            THEN serverResult
            ELSE IF ~policy.present THEN NullResult
            ELSE validateWithPolicy(policy, ctx)

\* JSON.parse gives null: requestData.method raises a TypeError outside the
\* try block of AuditValidator.validateRequest.
auditThrows(p) == p.kind = "jsonnull"

(***************************************************************************)
(* ScannerClient                                                           *)
(***************************************************************************)

getScannersForFilterType(filterType) ==
    CASE filterType = "harmfulCategories" -> <<"Toxicity">>
      [] filterType = "promptAttacks" -> <<"PromptInjection">>
      [] filterType = "banSubstrings" -> <<"BanSubstrings">>
      [] filterType = "banTopics" -> <<"BanTopics">>
      [] OTHER -> <<>>

\* The filter types that name a scanner are the scanner filter types.
isScannerFilterTypeByScanner(filterType) ==
    filterType \in {"harmfulCategories", "promptAttacks", "banSubstrings", "banTopics"}

isScannerFilterType(filterType) ==
    filterType \in {"harmfulCategories", "promptAttacks", "deniedTopics"}

\* A settled or pending callSingleScanAPI promise: state is "pending",
\* "fulfilled" (a 2xx answer, held in result), "non2xx", "threw" or "aborted".
Call(state, name, valid, risk) ==
    [state |-> state,
     result |-> [scanner_name |-> name, is_valid |-> valid, risk_score |-> risk]]

PendingCall == Call("pending", "", TRUE, "")

Settled(cs) == \A i \in DOMAIN cs : cs[i].state # "pending"

RECURSIVE Fulfilled(_, _)
Fulfilled(cs, i) ==
    IF i > Len(cs) THEN <<>>
    ELSE (IF cs[i].state = "fulfilled" THEN <<cs[i].result>> ELSE <<>>)
         \o Fulfilled(cs, i + 1)

EmptyScanResponse ==
    [results |-> <<>>, success_count |-> 0, failure_count |-> 0, rejected |-> FALSE]

\* Promise.all in place of Promise.allSettled: one rejected call rejects scan.
scanJoinAll(cs) ==
    IF \E i \in DOMAIN cs : cs[i].state # "fulfilled"
    THEN [EmptyScanResponse EXCEPT !.rejected = TRUE]
    ELSE [results |-> Fulfilled(cs, 1),
          success_count |->
             Cardinality({i \in DOMAIN cs : cs[i].result.is_valid}),
          failure_count |->
             Cardinality({i \in DOMAIN cs : ~cs[i].result.is_valid}),
          rejected |-> FALSE]

\* The part of ScannerClient.scan after Promise.allSettled: the fulfilled
\* results in task order and the two counters; scan itself is never rejected.
scanJoin(cs) ==
    [results |-> Fulfilled(cs, 1),
     success_count |->
        Cardinality({i \in DOMAIN cs :
                        cs[i].state = "fulfilled" /\ cs[i].result.is_valid}),
     failure_count |->
        Cardinality({i \in DOMAIN cs :
                        cs[i].state # "fulfilled" \/ ~cs[i].result.is_valid}),
     rejected |-> FALSE]

(***************************************************************************)
(* PolicyValidator: scanner tasks and the decision over the scan results   *)
(***************************************************************************)

SideRules(policy, side) ==
    IF side = "request" THEN policy.requestPayload ELSE policy.responsePayload

RECURSIVE TasksOfScanners(_, _, _, _)
TasksOfScanners(scanners, i, policy, side) ==
    IF i > Len(scanners) THEN <<>>
    ELSE <<[scanner_type |-> IF side = "request" THEN "prompt" ELSE "output",
            scanner_name |-> scanners[i],
            policyId |-> policy.id]>>
         \o TasksOfScanners(scanners, i + 1, policy, side)

RECURSIVE TasksOfRules(_, _, _, _)
TasksOfRules(rules, i, policy, side) ==
    IF i > Len(rules) THEN <<>>
    ELSE (IF isScannerFilterType(rules[i].type)
          THEN TasksOfScanners(getScannersForFilterType(rules[i].type), 1,
                               policy, side)
          ELSE <<>>)
         \o TasksOfRules(rules, i + 1, policy, side)

RECURSIVE collectScannerTasks(_, _, _)
collectScannerTasks(policies, i, side) ==
    IF i > Len(policies) THEN <<>>
    ELSE (IF policies[i].active
          THEN TasksOfRules(SideRules(policies[i], side), 1, policies[i], side)
          ELSE <<>>)
         \o collectScannerTasks(policies, i + 1, side)

\* scannerTasks.find(task => task.scanner_name === name)?.policyId || "unknown"
matchedPolicyId(ts, name) ==
    LET hits == {i \in DOMAIN ts : ts[i].scanner_name = name} IN
    IF hits = {} THEN "unknown"
    ELSE LET first == CHOOSE i \in hits : \A j \in hits : i <= j
         IN IF ts[first].policyId = "" THEN "unknown" ELSE ts[first].policyId

\* The block is returned without a reason.
ScannerBlockBare(ts, r) ==
    Result(FALSE, FALSE, NoText, NoReason,
           matchedPolicyId(ts, r.scanner_name), r.scanner_name, r.risk_score)

ScannerBlock(ts, r) ==
    Result(FALSE, FALSE, NoText,
           <<"Blocked by scanner: ", r.scanner_name, " (risk score: ",
             r.risk_score, ")">>,
           matchedPolicyId(ts, r.scanner_name), r.scanner_name, r.risk_score)

\* The loop keeps the last result that is not valid.
decideFromScanLast(ts, results) ==
    LET bad == {i \in DOMAIN results : ~results[i].is_valid} IN
    IF bad = {} THEN AllowResult
    ELSE ScannerBlock(ts, results[CHOOSE i \in bad : \A j \in bad : i >= j])

\* The loop over scanResponse.results: the first result that is not valid
\* blocks; otherwise "All checks passed".
decideFromScan(ts, results) ==
    LET bad == {i \in DOMAIN results : ~results[i].is_valid} IN
    IF bad = {} THEN AllowResult
    ELSE ScannerBlock(ts, results[CHOOSE i \in bad : \A j \in bad : i <= j])

(***************************************************************************)
(* PolicyValidator.validateRequest / validateResponse up to the scan       *)
(***************************************************************************)

Outcome(kind, result, text, ts) ==
    [kind |-> kind, result |-> result, text |-> text, tasks |-> ts]

\* An audit result that allows ends the validation: the guardrails are
\* skipped.
validateRequestStartAuditExempts(p, ctx, policies) ==
    LET auditResult == auditValidateRequest(p, ctx)
        extractedPayload == extractUserControlledFields(p)
        scannerTasks == collectScannerTasks(policies, 1, "request")
    IN  IF p.kind = "empty" THEN Outcome("return", AllowResult, NoText, <<>>)
        ELSE IF ctx.hasAuditRules /\ auditThrows(p)
        THEN Outcome("throw", NullResult, NoText, <<>>)
        ELSE IF ctx.hasAuditRules /\ ~IsNull(auditResult)
        THEN Outcome("return", auditResult, NoText, <<>>)
        ELSE IF extractedPayload = NoText
        THEN Outcome("return", AllowResult, NoText, <<>>)
        ELSE IF Len(scannerTasks) > 0
        THEN Outcome("scan", NullResult, extractedPayload, scannerTasks)
        ELSE Outcome("return", AllowResult, extractedPayload, <<>>)

\* The part of validateRequest before `await this.scannerClient.scan`:
\* it returns a result, raises, or goes on to scan.
validateRequestStart(p, ctx, policies) ==
    LET auditResult == auditValidateRequest(p, ctx)
        extractedPayload == extractUserControlledFields(p)
        scannerTasks == collectScannerTasks(policies, 1, "request")
    IN  IF p.kind = "empty" THEN Outcome("return", AllowResult, NoText, <<>>)
        ELSE IF ctx.hasAuditRules /\ auditThrows(p)
        THEN Outcome("throw", NullResult, NoText, <<>>)
        ELSE IF ctx.hasAuditRules /\ ~IsNull(auditResult) /\ ~auditResult.allowed
        THEN Outcome("return", auditResult, NoText, <<>>)
        ELSE IF extractedPayload = NoText
        THEN Outcome("return", AllowResult, NoText, <<>>)
        ELSE IF Len(scannerTasks) > 0
        THEN Outcome("scan", NullResult, extractedPayload, scannerTasks)
        ELSE Outcome("return", AllowResult, extractedPayload, <<>>)

validateResponseStart(p, policies) ==
    LET scannerTasks == collectScannerTasks(policies, 1, "response") IN
    IF p.kind = "empty" THEN Outcome("return", AllowResult, NoText, <<>>)
    ELSE IF Len(scannerTasks) > 0
    THEN Outcome("scan", NullResult, PayloadText(p), scannerTasks)
    ELSE Outcome("return", AllowResult, PayloadText(p), <<>>)

(***************************************************************************)
(* MCPProcessor                                                            *)
(***************************************************************************)

ProcResult(isBlocked, blockedReason, modifiedPayload) ==
    [isBlocked |-> isBlocked, shouldForward |-> ~isBlocked,
     hasBlockedResponse |-> isBlocked, blockedReason |-> blockedReason,
     modifiedPayload |-> modifiedPayload]

ForwardResult == ProcResult(FALSE, NoReason, NoText)

\* createBlockedResponse(payload, validationResult.reason || "Blocked by policy")
blockedReason(v) == IF NonEmptyMsg(v.reason) THEN v.reason ELSE <<"Blocked by policy">>

\* The blocked branch without `result.shouldForward = false`.
processOutcomeStillForwards(v) ==
    IF ~v.allowed
    THEN [ProcResult(TRUE, blockedReason(v), NoText) EXCEPT !.shouldForward = TRUE]
    ELSE IF v.modified /\ v.modifiedPayload # NoText
    THEN ProcResult(FALSE, NoReason, v.modifiedPayload)
    ELSE ForwardResult

\* The branches of processRequest / processResponse over the validation result.
processOutcome(v) ==
    IF ~v.allowed THEN ProcResult(TRUE, blockedReason(v), NoText)
    ELSE IF v.modified /\ v.modifiedPayload # NoText
    THEN ProcResult(FALSE, NoReason, v.modifiedPayload)
    ELSE ForwardResult

reportsForAlways(v, tbsToken) ==
    IF ~v.allowed \/ (v.modified /\ v.modifiedPayload # NoText) THEN 1 ELSE 0

\* `if (this.tbsToken) this.reportThreatAsync(...)` in both branches.
reportsFor(v, tbsToken) ==
    IF (~v.allowed \/ (v.modified /\ v.modifiedPayload # NoText)) /\ tbsToken # ""
    THEN 1 ELSE 0

\* The processor validates only a payload that JSON.parse accepts, and only
\* when threat detection is not skipped; a direct call of the validator
\* validates every payload.
Validates(in) ==
    \/ in.entry = "validator"
    \/ /\ in.entry = "processor"
       /\ in.payload.kind \in {"json", "jsonnull"}
       /\ ~in.skipThreat

(***************************************************************************)
(* PIIValidator and RegexValidator.  A text is matched token by token; a   *)
(* position in a text is the number of tokens before it.                   *)
(***************************************************************************)

\* The keys of PII_PATTERNS.
PII_PATTERNS ==
    {"email", "phone", "ssn", "credit_card", "ip_address", "password",
     "api_key", "url"}

\* toLowerCase / toUpperCase over the PII type names of the model.
LowerType(s) == IF s = "EMAIL" THEN "email" ELSE s

UpperType(s) == IF s \in {"email", "EMAIL"} THEN "EMAIL" ELSE s

\* Whether the pattern of PII type key matches inside token tok.
piiMatchesToken(key, tok) ==
    \/ key = "email" /\ tok \in {"alice@example.com", "bob@example.com"}
    \/ key = "ssn" /\ tok = "123-45-6789"

\* The patterns of the model that new RegExp(pattern, "i") rejects.
InvalidPatterns == {"("}

\* Whether the case-insensitive regex of pattern matches inside token tok.
regexMatchesToken(pattern, tok) ==
    \/ pattern = "secret" /\ tok \in {"secret", "SECRET"}
    \/ pattern = "@" /\ tok \in {"alice@example.com", "bob@example.com"}

\* The first of the matching positions after position from, 0 when there
\* is none.
firstMatch(matches, from) ==
    LET hits == {i \in matches : i > from} IN
    IF hits = {} THEN 0 ELSE CHOOSE i \in hits : \A j \in hits : i <= j

\* text.replace(regex, placeholder) with a global regex: every match.
replaceAll(tokens, matches, placeholder) ==
    [i \in DOMAIN tokens |-> IF i \in matches THEN placeholder ELSE tokens[i]]

\* text.replace(regex, placeholder) without the g flag: the first match.
replaceFirst(tokens, matches, placeholder) ==
    [i \in DOMAIN tokens |->
        IF i = firstMatch(matches, 0) THEN placeholder ELSE tokens[i]]

NoLastIndex == [k \in PII_PATTERNS |-> 0]

Validated(result, li) == [result |-> result, lastIndex |-> li]

\* PIIValidator.validate: the result, and lastIndex of the shared global
\* regexes afterwards.  regex.test searches from lastIndex and leaves it
\* behind the match, or at 0 when nothing matched; replace leaves it at 0.
piiValidate(text, rule, policy, li) ==
    LET key == LowerType(rule.pattern)
        matches == {i \in DOMAIN text.tokens : piiMatchesToken(key, text.tokens[i])}
        m == firstMatch(matches, li[key])
        action == IF rule.action = "" THEN "block" ELSE rule.action
    IN  IF rule.pattern = "" \/ key \notin PII_PATTERNS
        THEN Validated(AllowResult, li)
        ELSE IF m = 0 THEN Validated(AllowResult, [li EXCEPT ![key] = 0])
        ELSE IF action = "block"
        THEN Validated(Result(FALSE, FALSE, NoText,
                              <<"Blocked due to PII detection: ", rule.pattern>>,
                              policy.id, "", ""),
                       [li EXCEPT ![key] = m])
        ELSE IF action = "redact"
        THEN Validated(Result(TRUE, TRUE,
                              Text(text.frame,
                                   replaceAll(text.tokens, matches,
                                              "[" \o UpperType(rule.pattern)
                                                  \o "_REDACTED]"),
                                   text.long),
                              NoReason, "", "", ""),
                       [li EXCEPT ![key] = 0])
        ELSE Validated(AllowResult, [li EXCEPT ![key] = m])

\* The redaction is returned without its payload.
regexValidateBareRedact(text, rule, policy) ==
    LET matches == {i \in DOMAIN text.tokens :
                        regexMatchesToken(rule.pattern, text.tokens[i])}
        action == IF rule.action = "" THEN "block" ELSE rule.action
    IN  IF rule.pattern = "" \/ rule.pattern \in InvalidPatterns
        THEN AllowResult
        ELSE IF firstMatch(matches, 0) = 0 THEN AllowResult
        ELSE IF action = "block"
        THEN Result(FALSE, FALSE, NoText,
                    <<"Blocked by regex pattern: ", rule.pattern>>,
                    policy.id, "", "")
        ELSE IF action = "redact"
        THEN Result(TRUE, TRUE, NoText, NoReason, "", "", "")
        ELSE AllowResult

\* RegexValidator.validate: a fresh regex for every call.
regexValidate(text, rule, policy) ==
    LET matches == {i \in DOMAIN text.tokens :
                        regexMatchesToken(rule.pattern, text.tokens[i])}
        action == IF rule.action = "" THEN "block" ELSE rule.action
    IN  IF rule.pattern = "" \/ rule.pattern \in InvalidPatterns
        THEN AllowResult
        ELSE IF firstMatch(matches, 0) = 0 THEN AllowResult
        ELSE IF action = "block"
        THEN Result(FALSE, FALSE, NoText,
                    <<"Blocked by regex pattern: ", rule.pattern>>,
                    policy.id, "", "")
        ELSE IF action = "redact"
        THEN Result(TRUE, TRUE,
                    Text(text.frame, replaceFirst(text.tokens, matches, "[REDACTED]"),
                         text.long),
                    NoReason, "", "", "")
        ELSE AllowResult

\* No local validator has been called yet.
NoLocalCall ==
    [validator |-> "none", text |-> NoText, rule |-> Rule("", "", ""),
     result |-> NullResult]

(***************************************************************************)
(* RateLimitValidator                                                      *)
(***************************************************************************)

RATE_LIMIT_POLICY_CATEGORY == "RateLimitPolicy"

\* Math.ceil(a / b) for b > 0.
CeilDiv(a, b) == -((-a) \div b)

\* kv.get gives null for a key that is not stored.
NoCell == [present |-> FALSE, count |-> 0, resetAt |-> 0, expireAt |-> 0]

Cell(count, resetAt, expireAt) ==
    [present |-> TRUE, count |-> count, resetAt |-> resetAt, expireAt |-> expireAt]

kvGet(store, key) == IF key \in DOMAIN store THEN store[key] ELSE NoCell

\* The {count, resetAt} that kv.get returned.
Data(cell) == [present |-> cell.present, count |-> cell.count, resetAt |-> cell.resetAt]

extractToolName(p) ==
    IF p.kind = "json" /\ p.method = "tools/call" /\ p.hasParams THEN p.name ELSE ""

\* A string of an identifier is the sequence of its fragments, ":" being a
\* fragment of its own; <<>> is the empty string.  A name without ":" is one
\* fragment.
Str(name) == IF name = "" THEN <<>> ELSE <<name>>

\* The identifierParts array of validateRequest: one string per identifier
\* type, `||` taking the next operand for an empty one.
RECURSIVE identifierParts(_, _, _, _)
identifierParts(idTypes, i, ctx, toolName) ==
    IF i > Len(idTypes) THEN <<>>
    ELSE (CASE idTypes[i] = "ip" ->
                  <<IF ctx.ip # <<>> THEN ctx.ip ELSE <<"unknown">> >>
            [] idTypes[i] = "user" ->
                  <<IF ctx.userId # <<>> THEN ctx.userId
                    ELSE IF ctx.ip # <<>> THEN ctx.ip ELSE <<"unknown">> >>
            [] idTypes[i] = "tool" -> <<toolName>>
            [] OTHER -> <<>>)
         \o identifierParts(idTypes, i + 1, ctx, toolName)

\* identifierParts.join(":"): the strings of the parts run together, with
\* a ":" between two parts.
RECURSIVE joinParts(_, _)
joinParts(parts, i) ==
    IF i > Len(parts) THEN <<>>
    ELSE (IF i > 1 THEN <<":">> ELSE <<>>) \o parts[i] \o joinParts(parts, i + 1)

getRateLimitKey(identifier) == <<"ratelimit:">> \o identifier

\* A window is reused after it has expired: the stale resetAt is kept.
checkRateLimitKeepReset(data, t, limit, windowSeconds) ==
    IF ~data.present
    THEN [allowed |-> TRUE, currentCount |-> 1,
          resetAt |-> t + windowSeconds * 1000, put |-> TRUE, ttl |-> windowSeconds]
    ELSE IF t > data.resetAt
    THEN [allowed |-> TRUE, currentCount |-> 1,
          resetAt |-> data.resetAt, put |-> TRUE, ttl |-> windowSeconds]
    ELSE IF data.count >= limit
    THEN [allowed |-> FALSE, currentCount |-> data.count,
          resetAt |-> data.resetAt, put |-> FALSE, ttl |-> 0]
    ELSE [allowed |-> TRUE, currentCount |-> data.count + 1,
          resetAt |-> data.resetAt, put |-> TRUE,
          ttl |-> CeilDiv(data.resetAt - t, 1000)]

\* The limit is compared with > in place of >=.
checkRateLimitOffByOne(data, t, limit, windowSeconds) ==
    IF ~data.present \/ t > data.resetAt
    THEN [allowed |-> TRUE, currentCount |-> 1,
          resetAt |-> t + windowSeconds * 1000, put |-> TRUE, ttl |-> windowSeconds]
    ELSE IF data.count > limit
    THEN [allowed |-> FALSE, currentCount |-> data.count,
          resetAt |-> data.resetAt, put |-> FALSE, ttl |-> 0]
    ELSE [allowed |-> TRUE, currentCount |-> data.count + 1,
          resetAt |-> data.resetAt, put |-> TRUE,
          ttl |-> CeilDiv(data.resetAt - t, 1000)]

\* checkRateLimit once kv.get has returned data: t is the Date.now() taken
\* before the read.  The answer, whether a cell {currentCount, resetAt} is
\* put, and the put's expirationTtl in seconds.
checkRateLimit(data, t, limit, windowSeconds) ==
    IF ~data.present \/ t > data.resetAt
    THEN [allowed |-> TRUE, currentCount |-> 1,
          resetAt |-> t + windowSeconds * 1000, put |-> TRUE, ttl |-> windowSeconds]
    ELSE IF data.count >= limit
    THEN [allowed |-> FALSE, currentCount |-> data.count,
          resetAt |-> data.resetAt, put |-> FALSE, ttl |-> 0]
    ELSE [allowed |-> TRUE, currentCount |-> data.count + 1,
          resetAt |-> data.resetAt, put |-> TRUE,
          ttl |-> CeilDiv(data.resetAt - t, 1000)]

\* The ValidationResult of RateLimitValidator.validateRequest for the answer
\* d of checkRateLimit, built at time t2.
rateLimitResult(d, toolName, t2) ==
    LET resetInSeconds == CeilDiv(d.resetAt - t2, 1000) IN
    IF ~d.allowed
    THEN [result |->
            Result(FALSE, FALSE, NoText,
                   <<"Rate limit exceeded for tool '", toolName,
                     "'. Try again in ", ToString(resetInSeconds), " seconds.">>,
                   RATE_LIMIT_POLICY_CATEGORY, "", ""),
          current_count |-> d.currentCount, reset_at |-> d.resetAt,
          reset_in_seconds |-> resetInSeconds]
    ELSE [result |-> AllowResult, current_count |-> d.currentCount,
          reset_at |-> 0, reset_in_seconds |-> 0]

\* validateRequest returned null: rate limiting does not apply.
NoRateLimitResult ==
    [result |-> NullResult, current_count |-> 0, reset_at |-> 0,
     reset_in_seconds |-> 0]

Config(enabled, limit, windowSeconds, identifierTypes) ==
    [enabled |-> enabled, limit |-> limit, windowSeconds |-> windowSeconds,
     identifierTypes |-> identifierTypes]

\* No rate-limit config was handed to the validator.
NoConfig == Config(FALSE, 0, 0, <<>>)

\* Whether validateRequest gets as far as checkRateLimit.
rateLimitApplies(p, config) == config.enabled /\ extractToolName(p) # ""

(***************************************************************************)
(* The inputs of a processor or validator call                             *)
(***************************************************************************)

\* Longest list of policies handed to a call.
MaxPolicies == 2

PII == <<"alice@example.com">>

Methods ==
    SAFE_MCP_METHODS \cup {"", "tools/call", "prompts/get", "resources/read", "tools/list"}

\* params: absent, {name}, {name, arguments / prompt}, {uri}, {other members}.
ParamShapes ==
    {<<FALSE, "", "", <<>>>>, <<TRUE, "delete_all", "", <<>>>>,
     <<TRUE, "delete_all", "", PII>>, <<TRUE, "", "file:///etc/passwd", <<>>>>,
     <<TRUE, "", "", PII>>}

JsonPayloads ==
    {Payload("json", m, sh[1], sh[2], sh[3], sh[4], FALSE) :
        m \in Methods, sh \in ParamShapes}
    \cup {Payload("json", "tools/call", TRUE, "delete_all", "", PII, TRUE)}

Payloads ==
    {EmptyPayload, Payload("jsonnull", "", FALSE, "", "", <<>>, FALSE),
     Payload("text", "", FALSE, "", "", <<"hello">>, FALSE),
     Payload("text", "", FALSE, "", "", PII, FALSE)}
    \cup JsonPayloads

PolicyPool ==
    {Policy("MCPGuardrails", TRUE, <<Rule("promptAttacks", "", "block")>>, <<>>),
     Policy("P2", TRUE, <<Rule("promptAttacks", "", "block")>>,
            <<Rule("harmfulCategories", "", "block")>>),
     Policy("P3", FALSE, <<Rule("harmfulCategories", "", "block")>>,
            <<Rule("harmfulCategories", "", "block")>>),
     Policy("MCPGuardrails", TRUE,
            <<Rule("pii", "email", "block"), Rule("banTopics", "", "block"),
              Rule("banSubstrings", "", "block"), Rule("regex", "secret", "block")>>,
            <<Rule("pii", "email", "block"), Rule("banTopics", "", "block")>>),
     Policy("MCPGuardrails", TRUE,
            <<Rule("pii", "email", "redact"), Rule("deniedTopics", "", "block")>>,
            <<>>)}

\* A policy whose request rules call two different scanners.
TwoScannerPolicy ==
    Policy("P4", TRUE,
           <<Rule("harmfulCategories", "", "block"), Rule("promptAttacks", "", "block")>>,
           <<>>)

PolicyLists == UNION {[1..n -> PolicyPool] : n \in 0..MaxPolicies}

\* An AuditPolicy; approvalConditions without expiresAt has expiresAt 0.
AuditPolicy(remarks, hasConditions, expiresAt, ips, ranges, endpoints) ==
    [present |-> TRUE, remarks |-> remarks, hasConditions |-> hasConditions,
     expiresAt |-> expiresAt, allowedIps |-> ips, allowedIpRanges |-> ranges,
     whitelistedEndpoints |-> endpoints]

ClientIP == <<10, 0, 0, 5>>

Approved == AuditPolicy("approved", FALSE, 0, <<>>, <<>>, <<>>)
Rejected == AuditPolicy("Rejected", FALSE, 0, <<>>, <<>>, <<>>)
CondNoConditions == AuditPolicy("Conditionally Approved", FALSE, 0, <<>>, <<>>, <<>>)
CondExpired == AuditPolicy("Conditionally Approved", TRUE, 1000, <<>>, <<>>, <<>>)
CondInRange ==
    AuditPolicy("Conditionally Approved", TRUE, 0, <<>>,
                <<[addr |-> <<10, 0, 0, 0>>, bits |-> 24]>>, <<>>)

\* remarks that are none of the three known values.
UnknownRemarks == AuditPolicy("pending", FALSE, 0, <<>>, <<>>, <<>>)

\* The audit map: one policy for both resource names, one for the server.
AuditMap(resource, server) ==
    [k \in {"delete_all", "file:///etc/passwd", "srv"} |->
        IF k = "srv" THEN server ELSE resource]

Ctx(hasAuditRules, resource, server, serverName) ==
    [hasAuditRules |-> hasAuditRules, auditPolicies |-> AuditMap(resource, server),
     mcpServerName |-> serverName, ip |-> ClientIP, nowSec |-> 2000]

NoAuditCtx == Ctx(FALSE, Rejected, NoAuditPolicy, "")

Ctxs ==
    {NoAuditCtx}
    \cup {Ctx(TRUE, r, NoAuditPolicy, "") :
            r \in {NoAuditPolicy, Approved, Rejected, CondInRange, UnknownRemarks}}
    \cup {Ctx(TRUE, Approved, CondNoConditions, "Srv"),
          Ctx(TRUE, Rejected, CondExpired, "Srv"),
          Ctx(TRUE, Rejected, Approved, "Srv")}

Input(entry, side, payload, ctx, policies, tbsToken, skipThreat) ==
    [entry |-> entry, side |-> side, payload |-> payload, ctx |-> ctx,
     policies |-> policies, tbsToken |-> tbsToken, skipThreat |-> skipThreat]

NoInput == Input("none", "request", EmptyPayload, NoAuditCtx, <<>>, "", FALSE)

\* Calls of processRequest: every payload, context and token with the policy
\* lists of at most one policy, and the longer policy lists with the payloads
\* that are not safe methods.  skipThreat, and direct calls of
\* validateRequest (the only way a payload that is not JSON reaches the
\* validator), take one policy.
RequestInputs(entry) ==
    IF entry = "processor"
    THEN {Input("processor", "request", p, c, ps, t, FALSE) :
            p \in Payloads, c \in Ctxs, ps \in {l \in PolicyLists : Len(l) <= 1},
            t \in {"", "token"}}
         \cup {Input("processor", "request", p, c, ps, "token", FALSE) :
                 p \in {q \in Payloads : q.method \notin SAFE_MCP_METHODS},
                 c \in {NoAuditCtx, Ctx(TRUE, Approved, NoAuditPolicy, "")},
                 ps \in {l \in PolicyLists : Len(l) > 1}}
         \cup {Input("processor", "request", p, NoAuditCtx, ps, "token", TRUE) :
                 p \in Payloads, ps \in {l \in PolicyLists : Len(l) = 1}}
         \cup {Input("processor", "request", p, NoAuditCtx, <<TwoScannerPolicy>>,
                      "token", FALSE) :
                 p \in {q \in Payloads : q.method \notin SAFE_MCP_METHODS}}
    ELSE {Input("validator", "request", p, c, ps, "", FALSE) :
            p \in {q \in Payloads : q.kind \in {"empty", "text"}}, c \in Ctxs,
            ps \in {l \in PolicyLists : Len(l) = 1}}

ResponsePayloads ==
    {p \in Payloads : p.kind # "json" \/ (p.method = "" /\ ~p.big)}

ResponseInputs(entry) ==
    IF entry = "processor"
    THEN {Input("processor", "response", p, NoAuditCtx, ps, t, FALSE) :
            p \in ResponsePayloads, ps \in PolicyLists, t \in {"", "token"}}
         \cup {Input("processor", "response", p, NoAuditCtx, ps, "token", TRUE) :
                 p \in ResponsePayloads, ps \in {l \in PolicyLists : Len(l) = 1}}
    ELSE {Input("validator", "response", p, NoAuditCtx, ps, "token", FALSE) :
            p \in ResponsePayloads, ps \in {l \in PolicyLists : Len(l) = 1}}

\* The calls that enter at entry (processor or validator) on one side.
Inputs(entry, side) ==
    IF side = "request" THEN RequestInputs(entry) ELSE ResponseInputs(entry)

(***************************************************************************)
(* The processor call as a state machine                                   *)
(***************************************************************************)

SCAN_TIMEOUT_MS == 5000

\* The rest of the handler once the validator has its result v: the
\* processor blocks, forwards or forwards the modified payload, and reports.
Finish(in, v) ==
    /\ pc' = "done"
    /\ valResult' = v
    /\ procResult' = IF in.entry = "processor" THEN processOutcome(v) ELSE ForwardResult
    /\ reports' = IF in.entry = "processor" THEN reportsFor(v, in.tbsToken) ELSE 0
    /\ threw' = FALSE
    /\ elapsed' = 0

Raise ==
    /\ pc' = "done"
    /\ valResult' = NullResult
    /\ procResult' = ForwardResult
    /\ reports' = 0
    /\ threw' = TRUE
    /\ elapsed' = 0

\* scan resolved with the ScanResponse of the settled calls cs (or was
\* rejected); the validator decides and the handler completes.
Join(in, ts, cs) ==
    LET resp == scanJoin(cs) IN
    /\ scanResp' = resp
    /\ IF resp.rejected THEN Raise ELSE Finish(in, decideFromScan(ts, resp.results))

\* callSingleScanAPI without its size test: every call is POSTed.
IssueCallsUnchecked(in, o) ==
    /\ scanText' = o.text
    /\ tasks' = o.tasks
    /\ calls' = [i \in DOMAIN o.tasks |-> PendingCall]
    /\ posts' = Len(o.tasks)
    /\ pc' = "scanning"
    /\ elapsed' = 0
    /\ UNCHANGED <<scanResp, valResult, procResult, reports, threw>>

\* callSingleScanAPI raises before the POST for a text that is too long.
IssueCalls(in, o) ==
    /\ scanText' = o.text
    /\ tasks' = o.tasks
    /\ IF o.text.long
       THEN /\ calls' = [i \in DOMAIN o.tasks |-> Call("threw", "", TRUE, "")]
            /\ posts' = 0
            /\ Join(in, o.tasks, calls')
       ELSE /\ calls' = [i \in DOMAIN o.tasks |-> PendingCall]
            /\ posts' = Len(o.tasks)
            /\ pc' = "scanning"
            /\ elapsed' = 0
            /\ UNCHANGED <<scanResp, valResult, procResult, reports, threw>>

Start(in) ==
    LET o == IF in.side = "request"
             THEN validateRequestStart(in.payload, in.ctx, in.policies)
             ELSE validateResponseStart(in.payload, in.policies)
    IN
    /\ input' = in
    /\ IF ~Validates(in)
       THEN /\ pc' = "done"
            /\ UNCHANGED <<scanText, tasks, calls, elapsed, posts, scanResp,
                           valResult, procResult, reports, threw>>
       ELSE IF o.kind = "scan" THEN IssueCalls(in, o)
       ELSE /\ scanText' = o.text
            /\ UNCHANGED <<tasks, calls, posts, scanResp>>
            /\ IF o.kind = "throw" THEN Raise ELSE Finish(in, o.result)
    /\ UNCHANGED <<mode, rlVars, lvVars, auxVars, sideVars>>

processRequest ==
    /\ mode = "pv"
    /\ pc = "idle"
    /\ \E in \in Inputs("processor", "request") : Start(in)

processResponse ==
    /\ mode = "pv"
    /\ pc = "idle"
    /\ \E in \in Inputs("processor", "response") : Start(in)

validateRequest ==
    /\ mode = "pv"
    /\ pc = "idle"
    /\ \E in \in Inputs("validator", "request") : Start(in)

validateResponse ==
    /\ mode = "pv"
    /\ pc = "idle"
    /\ \E in \in Inputs("validator", "response") : Start(in)

\* What the scanner endpoint may answer to the POST of task t: a 2xx with a
\* verdict under the scanner's name, a non-2xx, or a network error.
Answers(t) ==
    {Call("fulfilled", t.scanner_name, TRUE, "0.1"),
     Call("fulfilled", t.scanner_name, FALSE, "0.9"),
     Call("non2xx", "", TRUE, ""), Call("threw", "", TRUE, "")}

Settle(cs) ==
    /\ calls' = cs
    /\ IF Settled(cs)
       THEN Join(input, tasks, cs)
       ELSE UNCHANGED <<pc, elapsed, scanResp, valResult, procResult, reports, threw>>
    /\ UNCHANGED <<mode, input, scanText, tasks, posts, rlVars, lvVars, auxVars, sideVars>>

ScanAnswer ==
    /\ mode = "pv"
    /\ pc = "scanning"
    /\ \E i \in DOMAIN calls : \E a \in Answers(tasks[i]) :
          /\ calls[i].state = "pending"
          /\ Settle([calls EXCEPT ![i] = a])

ScanTick ==
    /\ mode = "pv"
    /\ pc = "scanning"
    /\ elapsed < SCAN_TIMEOUT_MS
    /\ elapsed' = SCAN_TIMEOUT_MS
    /\ UNCHANGED <<mode, pc, input, scanText, tasks, calls, posts, scanResp,
                   valResult, procResult, reports, threw, rlVars, lvVars, auxVars, sideVars>>

\* controller.abort() at the deadline: every call still in flight is rejected.
ScanTimeout ==
    /\ mode = "pv"
    /\ pc = "scanning"
    /\ elapsed >= SCAN_TIMEOUT_MS
    /\ Settle([i \in DOMAIN calls |->
                 IF calls[i].state = "pending"
                 THEN Call("aborted", "", TRUE, "") ELSE calls[i]])

NextPV ==
    \/ processRequest
    \/ processResponse
    \/ validateRequest
    \/ validateResponse
    \/ ScanAnswer
    \/ ScanTick
    \/ ScanTimeout

InitPVVars ==
    /\ pc = "idle"
    /\ input = NoInput
    /\ scanText = NoText
    /\ tasks = <<>>
    /\ calls = <<>>
    /\ elapsed = 0
    /\ posts = 0
    /\ scanResp = EmptyScanResponse
    /\ valResult = NullResult
    /\ procResult = ForwardResult
    /\ reports = 0
    /\ threw = FALSE

InitRLVars ==
    /\ cfg = NoConfig
    /\ kv = <<>>
    /\ now = 0
    /\ rl = <<>>
    /\ hist = <<>>

InitLVVars ==
    /\ lastIndex = NoLastIndex
    /\ lv = NoLocalCall

\* No batch has been handed to handleBatchValidation yet.
NoBatch == [state |-> "idle", records |-> <<>>, i |-> 0, results |-> <<>>]

\* The audit validator has not been called yet.
NoAuditCall ==
    [called |-> FALSE, payload |-> EmptyPayload, ctx |-> NoAuditCtx,
     result |-> NullResult]

\* isIPInCIDR has not been called yet.
NoCidrCall ==
    [called |-> FALSE, ip |-> NoIP, cidr |-> [addr |-> NoIP, bits |-> 0],
     result |-> FALSE]

\* The auditor, the threat reporter, the policy manager and the ingress
\* before their first call.
NoMeta ==
    [state |-> "idle", tbsToken |-> "", token |-> "", llm |-> {},
     tools |-> <<>>, next |-> 0,
     promises |-> {}, phase |-> <<>>, answer |-> <<>>, reports |-> <<>>]

NoThreatPost ==
    [state |-> "idle", side |-> "request", result |-> NullResult,
     tbsToken |-> "", hasCtx |-> FALSE, post |-> "none", promise |-> "none",
     waitUntil |-> 0, returned |-> FALSE, procResult |-> ForwardResult,
     raised |-> FALSE,
     valCtx |-> [requestPayload |-> "rawRequest", responsePayload |-> "rawResponse"],
     body |-> [requestPayload |-> "", responsePayload |-> ""],
     delivered |-> [requestPayload |-> "", responsePayload |-> ""],
     responseHalf |-> FALSE]

NoFetchCall ==
    [state |-> "idle", fn |-> "", response |-> "none", list |-> <<>>,
     threw |-> FALSE, policies |-> <<>>, auditPolicies |-> <<>>,
     validated |-> <<>>, payload |-> EmptyPayload,
     outcome |-> [kind |-> "none", result |-> NullResult, text |-> NoText,
                  tasks |-> <<>>]]

NoIngress ==
    [state |-> "idle", endpoint |-> "", flag |-> "", dbToken |-> "", records |-> 0,
     fetched |-> {}, hasAuditRules |-> FALSE, validated |-> 0,
     forwarded |-> FALSE, status |-> "none"]

InitSideVars ==
    /\ meta = NoMeta
    /\ threatPost = NoThreatPost
    /\ fetchCall = NoFetchCall
    /\ ingress = NoIngress

InitAuxVars ==
    /\ batch = NoBatch
    /\ auditCall = NoAuditCall
    /\ cidrCall = NoCidrCall

InitPV == mode = "pv" /\ InitPVVars /\ InitRLVars /\ InitLVVars /\ InitAuxVars /\ InitSideVars

SpecPV == InitPV /\ [][NextPV]_vars

(***************************************************************************)
(* The rate-limit validator over the KV store and the clock                *)
(***************************************************************************)

\* Rate-limit checks made in one behaviour.
MaxCalls == 4

\* Largest limit and largest windowSeconds of a config.
MaxLimit == 2

MaxWindow == 1

\* The clock advances in steps of half a second, MaxClock times.
MaxClock == 3

TickMs == 1000 \div 2

\* Callers whose checks may overlap, and the checks they make in one
\* behaviour.
NumCallers == 2

MaxOverlapping == 3

\* Checks of one behaviour during which the store fails.
MaxStoreErrors == 1

Callers == 1..NumCallers

RLPayloads ==
    {Payload("json", "tools/call", TRUE, "delete_all", "", PII, FALSE),
     Payload("json", "tools/call", TRUE, "", "", PII, FALSE),
     Payload("json", "tools/list", FALSE, "", "", <<>>, FALSE),
     Payload("text", "", FALSE, "", "", <<"hello">>, FALSE)}

RLCtx == [ip |-> Str("10.0.0.5"), userId |-> Str("")]

Configs ==
    {Config(e, l, w, <<"ip", "tool">>) :
        e \in BOOLEAN, l \in 0..MaxLimit, w \in 1..MaxWindow}

IdleCaller == [pc |-> "idle", t |-> 0, toolName |-> "", key |-> <<>>,
               data |-> Data(NoCell)]

\* One completed validateRequest: when it sampled the clock and when it
\* returned, what it read, what it put, and its result.
HistEntry(applies, t, at, read, d, res) ==
    [applies |-> applies, t |-> t, at |-> at, read |-> read,
     put |-> d.put, count |-> d.currentCount, resetAt |-> d.resetAt,
     result |-> res.result, current_count |-> res.current_count,
     reset_at |-> res.reset_at, reset_in_seconds |-> res.reset_in_seconds,
     failed |-> "", raised |-> FALSE]

\* A validateRequest whose kv.get or kv.put (op) was rejected by the store:
\* neither call is inside a try block, so validateRequest is rejected too.
RaisedEntry(t, read, op) ==
    [HistEntry(TRUE, t, t, read,
               [put |-> FALSE, currentCount |-> 0, resetAt |-> 0],
               NoRateLimitResult)
        EXCEPT !.failed = op, !.raised = TRUE]

NullEntry ==
    HistEntry(FALSE, now, now, Data(NoCell),
              [put |-> FALSE, currentCount |-> 0, resetAt |-> 0],
              NoRateLimitResult)

\* A blocked check writes the cell it read back to the store.
kvPutAlways(store, key, d) ==
    (key :> Cell(d.currentCount, d.resetAt, now + d.ttl * 1000)) @@ store

\* kv.put(key, {count, resetAt}, {expirationTtl}) made at the current time.
kvPut(store, key, d) ==
    IF d.put
    THEN (key :> Cell(d.currentCount, d.resetAt, now + d.ttl * 1000)) @@ store
    ELSE store

InFlight == Cardinality({c \in DOMAIN rl : rl[c].pc # "idle"})

\* validateRequest with nothing else running between its KV read and its
\* KV write.
rateLimitValidateRequest ==
    /\ mode \in {"rl", "rlf"}
    /\ Len(hist) < MaxCalls
    /\ \E p \in RLPayloads :
        IF ~rateLimitApplies(p, cfg)
        THEN hist' = Append(hist, NullEntry) /\ UNCHANGED kv
        ELSE LET toolName == extractToolName(p)
                 key == getRateLimitKey(
                            joinParts(identifierParts(cfg.identifierTypes, 1,
                                                      RLCtx, Str(toolName)), 1))
                 data == Data(kvGet(kv, key))
                 d == checkRateLimit(data, now, cfg.limit, cfg.windowSeconds)
             IN /\ kv' = kvPut(kv, key, d)
                /\ hist' = Append(hist,
                                  HistEntry(TRUE, now, now, data, d,
                                            rateLimitResult(d, toolName, now)))
    /\ UNCHANGED <<mode, pvVars, cfg, now, rl, lvVars, auxVars, sideVars>>

\* validateRequest up to `const now = Date.now()` of checkRateLimit.  The
\* callers are interchangeable: a new check takes the lowest idle one.
RateLimitStart(c) ==
    /\ mode = "rlc"
    /\ rl[c].pc = "idle"
    /\ \A b \in Callers : b < c => rl[b].pc # "idle"
    /\ Len(hist) + InFlight < MaxOverlapping
    /\ \E p \in {q \in RLPayloads : extractToolName(q) # ""} :
        IF ~rateLimitApplies(p, cfg)
        THEN hist' = Append(hist, NullEntry) /\ UNCHANGED rl
        ELSE LET toolName == extractToolName(p)
                 key == getRateLimitKey(
                            joinParts(identifierParts(cfg.identifierTypes, 1,
                                                      RLCtx, Str(toolName)), 1))
             IN /\ rl' = [rl EXCEPT ![c] =
                            [pc |-> "get", t |-> now, toolName |-> toolName,
                             key |-> key, data |-> Data(NoCell)]]
                /\ UNCHANGED hist
    /\ UNCHANGED <<mode, pvVars, cfg, kv, now, lvVars, auxVars, sideVars>>

\* `await this.kv.get(key, "json")` resolves.
KvGet(c) ==
    /\ mode = "rlc"
    /\ rl[c].pc = "get"
    /\ rl' = [rl EXCEPT ![c].pc = "put", ![c].data = Data(kvGet(kv, rl[c].key))]
    /\ UNCHANGED <<mode, pvVars, cfg, kv, now, hist, lvVars, auxVars, sideVars>>

\* The rest of checkRateLimit and of validateRequest: the put, if any, and
\* the result.
RateLimitFinish(c) ==
    /\ mode = "rlc"
    /\ rl[c].pc = "put"
    /\ LET d == checkRateLimit(rl[c].data, rl[c].t, cfg.limit, cfg.windowSeconds)
       IN /\ kv' = kvPut(kv, rl[c].key, d)
          /\ hist' = Append(hist,
                            HistEntry(TRUE, rl[c].t, now, rl[c].data, d,
                                      rateLimitResult(d, rl[c].toolName, now)))
    /\ rl' = [rl EXCEPT ![c] = IdleCaller]
    /\ UNCHANGED <<mode, pvVars, cfg, now, lvVars, auxVars, sideVars>>

ClockTick ==
    /\ mode \in {"rl", "rlc", "rlf"}
    /\ now < MaxClock * TickMs
    /\ now' = now + TickMs
    /\ UNCHANGED <<mode, pvVars, cfg, kv, rl, hist, lvVars, auxVars, sideVars>>

\* The store drops a key once its expirationTtl has run out.
KvExpire ==
    /\ mode \in {"rl", "rlc", "rlf"}
    /\ \E key \in DOMAIN kv :
        /\ now > kv[key].expireAt
        /\ kv' = [k \in DOMAIN kv \ {key} |-> kv[k]]
    /\ UNCHANGED <<mode, pvVars, cfg, now, rl, hist, lvVars, auxVars, sideVars>>

\* validateRequest while the KV store is failing: kv.get is rejected, or
\* kv.get answers and the kv.put that follows is rejected and stores nothing.
rateLimitStoreError ==
    /\ mode = "rlf"
    /\ Len(hist) < MaxCalls
    /\ Cardinality({i \in DOMAIN hist : hist[i].raised}) < MaxStoreErrors
    /\ \E p \in RLPayloads, op \in {"get", "put"} :
        LET toolName == extractToolName(p)
            key == getRateLimitKey(
                       joinParts(identifierParts(cfg.identifierTypes, 1,
                                                 RLCtx, Str(toolName)), 1))
            data == Data(kvGet(kv, key))
            d == checkRateLimit(data, now, cfg.limit, cfg.windowSeconds)
        IN /\ rateLimitApplies(p, cfg)
           /\ op = "put" => d.put
           /\ hist' = Append(hist,
                             RaisedEntry(now,
                                         IF op = "get" THEN Data(NoCell) ELSE data,
                                         op))
    /\ UNCHANGED <<mode, pvVars, cfg, kv, now, rl, lvVars, auxVars, sideVars>>

\* Rate-limited calls of one behaviour whose keys are compared.
MaxKeyCalls == 2

\* Identifier lists a rate-limit policy may carry.
KeyIdTypes ==
    {<<"ip">>, <<"tool">>, <<"ip", "tool">>, <<"user", "tool">>, <<"ip", "user", "tool">>}

\* Client addresses (valCtx.ip, absent or an IPv6-like text with ":" in it),
\* x-user-id headers (absent, or any text the client sends) and tool names
\* (params.name, any non-empty text the client sends).
KeyIps == {<<>>, <<"a">>, <<"a", ":", "b">>}

KeyUsers == {<<>>, <<"a">>, <<"a", ":", "b">>}

KeyTools == {<<"c">>, <<"b", ":", "c">>}

KeyConfigs == {Config(TRUE, MaxLimit, MaxWindow, ids) : ids \in KeyIdTypes}

\* One validateRequest of a tools/call under the policy cfg: the parts, the
\* key, the cell read under it and the cell written.
KeyedValidateRequest ==
    /\ mode = "rlk"
    /\ Len(hist) < MaxKeyCalls
    /\ \E ip \in KeyIps, userId \in KeyUsers, toolName \in KeyTools :
        LET parts == identifierParts(cfg.identifierTypes, 1,
                                     [ip |-> ip, userId |-> userId], toolName)
            key == getRateLimitKey(joinParts(parts, 1))
            data == Data(kvGet(kv, key))
            d == checkRateLimit(data, now, cfg.limit, cfg.windowSeconds)
        IN /\ kv' = kvPut(kv, key, d)
           /\ hist' = Append(hist, [parts |-> parts, key |-> key, read |-> data,
                                    count |-> d.currentCount])
    /\ UNCHANGED <<mode, pvVars, cfg, now, rl, lvVars, auxVars, sideVars>>

NextRLKeys ==
    \/ KeyedValidateRequest

NextRLSeq ==
    \/ rateLimitValidateRequest
    \/ ClockTick
    \/ KvExpire

NextRLConc ==
    \/ \E c \in Callers : RateLimitStart(c)
    \/ \E c \in Callers : KvGet(c)
    \/ \E c \in Callers : RateLimitFinish(c)
    \/ ClockTick
    \/ KvExpire

InitRLKeys ==
    /\ mode = "rlk"
    /\ InitPVVars
    /\ InitLVVars
    /\ InitAuxVars /\ InitSideVars
    /\ cfg \in KeyConfigs
    /\ kv = <<>>
    /\ now = 0
    /\ rl = <<>>
    /\ hist = <<>>

SpecRLKeys == InitRLKeys /\ [][NextRLKeys]_vars

InitRLSeq ==
    /\ mode = "rl"
    /\ InitPVVars
    /\ InitLVVars
    /\ InitAuxVars /\ InitSideVars
    /\ cfg \in Configs
    /\ kv = <<>>
    /\ now = 0
    /\ rl = <<>>
    /\ hist = <<>>

InitRLConc ==
    /\ mode = "rlc"
    /\ InitPVVars
    /\ InitLVVars
    /\ InitAuxVars /\ InitSideVars
    /\ cfg \in {c \in Configs : c.enabled /\ c.limit >= 1}
    /\ kv = <<>>
    /\ now = 0
    /\ rl = [c \in Callers |-> IdleCaller]
    /\ hist = <<>>

NextRLFail ==
    \/ rateLimitValidateRequest
    \/ rateLimitStoreError
    \/ ClockTick
    \/ KvExpire

InitRLFail ==
    /\ mode = "rlf"
    /\ InitPVVars
    /\ InitLVVars
    /\ InitAuxVars /\ InitSideVars
    /\ cfg \in {c \in Configs : c.enabled /\ c.limit >= 1}
    /\ kv = <<>>
    /\ now = 0
    /\ rl = <<>>
    /\ hist = <<>>

SpecRLFail == InitRLFail /\ [][NextRLFail]_vars

SpecRLSeq == InitRLSeq /\ [][NextRLSeq]_vars

SpecRLConc == InitRLConc /\ [][NextRLConc]_vars

(***************************************************************************)
(* The local validators, called one after another on the shared regexes    *)
(***************************************************************************)

\* Longest text, in tokens, handed to a local validator.
MaxTokens == 2

Tokens == {"hello", "alice@example.com"}

LVTexts ==
    {Text("payload", t, FALSE) : t \in UNION {[1..n -> Tokens] : n \in 0..MaxTokens}}

Actions == {"", "block", "redact", "log"}

PIIRules == {Rule("pii", t, a) : t \in {"", "email", "EMAIL", "ssn", "zip"}, a \in Actions}

RegexRules == {Rule("regex", t, a) : t \in {"", "@", "("}, a \in Actions}

LVPolicy == Policy("MCPGuardrails", TRUE, <<>>, <<>>)

LocalCall(validator, text, rule, result) ==
    [validator |-> validator, text |-> text, rule |-> rule, result |-> result]

PIIValidate ==
    /\ mode = "lv"
    /\ \E text \in LVTexts, rule \in PIIRules :
        LET v == piiValidate(text, rule, LVPolicy, lastIndex) IN
        /\ lastIndex' = v.lastIndex
        /\ lv' = LocalCall("pii", text, rule, v.result)
    /\ UNCHANGED <<mode, pvVars, rlVars, auxVars, sideVars>>

RegexValidate ==
    /\ mode = "lv"
    /\ \E text \in LVTexts, rule \in RegexRules :
        lv' = LocalCall("regex", text, rule, regexValidate(text, rule, LVPolicy))
    /\ UNCHANGED <<mode, pvVars, rlVars, lastIndex, auxVars, sideVars>>

NextLocal ==
    \/ PIIValidate
    \/ RegexValidate

InitLocal ==
    mode = "lv" /\ InitPVVars /\ InitRLVars /\ InitLVVars /\ InitAuxVars /\ InitSideVars

SpecLocal == InitLocal /\ [][NextLocal]_vars

(***************************************************************************)
(* The engine: any one of its components at work                           *)
(***************************************************************************)

(***************************************************************************)
(* handleBatchValidation                                                   *)
(***************************************************************************)

\* Longest batch handed to handleBatchValidation.
MaxBatch == 2

\* An ingest record: its two header strings and its two payloads.
Record(requestHeaders, responseHeaders, requestPayload, responsePayload) ==
    [requestHeaders |-> requestHeaders, responseHeaders |-> responseHeaders,
     requestPayload |-> requestPayload, responsePayload |-> responsePayload]

\* The header strings of the model that JSON.parse rejects.
InvalidHeaders == {"{"}

\* `data.requestHeaders ? JSON.parse(data.requestHeaders) : {}` raises.
headersThrow(h) == h # "" /\ h \in InvalidHeaders

\* The pre-fetched policies of the batch and the audit map: the resource
\* delete_all is rejected.
BatchPolicies ==
    <<Policy("P2", TRUE, <<Rule("promptAttacks", "", "block")>>,
             <<Rule("harmfulCategories", "", "block")>>)>>

BatchCtx == Ctx(TRUE, Rejected, NoAuditPolicy, "")

BatchRequests ==
    {EmptyPayload, Payload("jsonnull", "", FALSE, "", "", <<>>, FALSE),
     Payload("json", "tools/call", TRUE, "delete_all", "", PII, FALSE),
     Payload("json", "tools/list", TRUE, "", "", PII, FALSE)}

BatchResponses == {EmptyPayload, Payload("json", "", FALSE, "", "", <<>>, FALSE)}

Records ==
    {Record(h, "{}", rq, rs) :
        h \in {"", "{}"}, rq \in BatchRequests, rs \in BatchResponses}
    \cup {Record("{", "{}", rq, EmptyPayload) : rq \in BatchRequests}
    \cup {Record("{}", "{", EmptyPayload, rs) : rs \in BatchResponses}

Batches == UNION {[1..n -> Records] : n \in 0..MaxBatch}

\* What one processRequest / processResponse call of the batch's processor
\* may come to: a ProcessResult, or an exception.
HalfOutcome(raised, result) == [raised |-> raised, result |-> result]

ScanOutcomes(ts, text) ==
    LET aborted == Call("aborted", "", TRUE, "")
        settled ==
            IF text.long THEN {[i \in DOMAIN ts |-> Call("threw", "", TRUE, "")]}
            ELSE {cs \in [DOMAIN ts ->
                            UNION {Answers(ts[i]) : i \in DOMAIN ts}
                            \cup {aborted}] :
                    \A i \in DOMAIN ts : cs[i] \in Answers(ts[i]) \cup {aborted}}
    IN {IF scanJoin(cs).rejected THEN HalfOutcome(TRUE, ForwardResult)
        ELSE HalfOutcome(FALSE,
                         processOutcome(decideFromScan(ts, scanJoin(cs).results))) :
            cs \in settled}

HalfOutcomes(side, p) ==
    LET in == Input("processor", side, p, BatchCtx, BatchPolicies, "token", FALSE)
        o == IF side = "request"
             THEN validateRequestStart(p, BatchCtx, BatchPolicies)
             ELSE validateResponseStart(p, BatchPolicies)
    IN  IF ~Validates(in) THEN {HalfOutcome(FALSE, ForwardResult)}
        ELSE IF o.kind = "throw" THEN {HalfOutcome(TRUE, ForwardResult)}
        ELSE IF o.kind = "return"
        THEN {HalfOutcome(FALSE, processOutcome(o.result))}
        ELSE ScanOutcomes(o.tasks, o.text)

\* ValidationBatchResult of the record at position index (from 0), from the
\* outcomes of its two halves; a half without payload is not processed.
BatchResult(index, data, rq, rs) ==
    LET hasRq == data.requestPayload.kind # "empty"
        hasRs == data.responsePayload.kind # "empty"
    IN [index |-> index,
        requestAllowed |-> IF hasRq /\ ~rq.raised THEN ~rq.result.isBlocked ELSE TRUE,
        requestModified |->
            IF hasRq /\ ~rq.raised THEN rq.result.modifiedPayload # NoText ELSE FALSE,
        requestError |-> hasRq /\ rq.raised,
        responseAllowed |-> IF hasRs /\ ~rs.raised THEN ~rs.result.isBlocked ELSE TRUE,
        responseModified |->
            IF hasRs /\ ~rs.raised THEN rs.result.modifiedPayload # NoText ELSE FALSE,
        responseError |-> hasRs /\ rs.raised]

\* handleBatchValidation is called with pre-fetched policies.
handleBatchValidation ==
    /\ mode = "batch"
    /\ batch.state = "idle"
    /\ \E records \in Batches :
        batch' = [state |-> "running", records |-> records, i |-> 0, results |-> <<>>]
    /\ UNCHANGED <<mode, pvVars, rlVars, lvVars, auditCall, cidrCall, sideVars>>

\* One iteration of the loop: the headers are parsed outside any try
\* block, each half is processed inside its own, and the result is pushed.
BatchRecord ==
    /\ mode = "batch"
    /\ batch.state = "running"
    /\ batch.i < Len(batch.records)
    /\ LET data == batch.records[batch.i + 1] IN
        IF headersThrow(data.requestHeaders) \/ headersThrow(data.responseHeaders)
        THEN batch' = [batch EXCEPT !.state = "threw", !.results = <<>>]
        ELSE \E rq \in HalfOutcomes("request", data.requestPayload),
                rs \in HalfOutcomes("response", data.responsePayload) :
                batch' = [batch EXCEPT
                             !.i = batch.i + 1,
                             !.results = Append(batch.results,
                                                BatchResult(batch.i, data, rq, rs))]
    /\ UNCHANGED <<mode, pvVars, rlVars, lvVars, auditCall, cidrCall, sideVars>>

\* `return results` after the last record.
BatchReturn ==
    /\ mode = "batch"
    /\ batch.state = "running"
    /\ batch.i = Len(batch.records)
    /\ batch' = [batch EXCEPT !.state = "returned"]
    /\ UNCHANGED <<mode, pvVars, rlVars, lvVars, auditCall, cidrCall, sideVars>>

NextBatch ==
    \/ handleBatchValidation
    \/ BatchRecord
    \/ BatchReturn

InitBatch ==
    mode = "batch" /\ InitPVVars /\ InitRLVars /\ InitLVVars /\ InitAuxVars /\ InitSideVars

SpecBatch == InitBatch /\ [][NextBatch]_vars

(***************************************************************************)
(* A call of AuditValidator.validateRequest                                *)
(***************************************************************************)

AuditClientIPs == {NoIP, <<10, 0, 0, 5>>, <<10, 0, 1, 5>>, <<192, 168, 1, 1>>}

AllowedIpLists == {<<>>, <<<<10, 0, 0, 5>>>>, <<<<172, 16, 0, 1>>, <<192, 168, 1, 1>>>>}

AllowedRangeLists ==
    {<<>>, <<[addr |-> <<10, 0, 0, 0>>, bits |-> 24]>>,
     <<[addr |-> <<10, 0, 1, 0>>, bits |-> 24],
       [addr |-> <<192, 168, 0, 0>>, bits |-> 16]>>}

\* The conditionally approved policies: with and without conditions, with
\* expiresAt negative, absent (0) or set, and with each allow-list.
ConditionalPolicies ==
    {AuditPolicy("Conditionally Approved", c, e, ips, rs, eps) :
        c \in BOOLEAN, e \in {-5, 0, 1000}, ips \in AllowedIpLists,
        rs \in AllowedRangeLists, eps \in {<<>>, <<"endpoint-1">>}}

AuditPayloads ==
    {Payload("json", "tools/call", TRUE, "delete_all", "", PII, FALSE),
     Payload("json", "resources/read", TRUE, "", "file:///etc/passwd", <<>>, FALSE),
     Payload("json", "tools/list", TRUE, "", "", PII, FALSE),
     Payload("text", "", FALSE, "", "", PII, FALSE)}

AuditCtx(resource, server, serverName, ip, nowSec) ==
    [hasAuditRules |-> TRUE, auditPolicies |-> AuditMap(resource, server),
     mcpServerName |-> serverName, ip |-> ip, nowSec |-> nowSec]

\* Every conditional policy on the resource with no server-level policy,
\* and the server-level policies over a few resource policies.
AuditCtxs ==
    {AuditCtx(r, NoAuditPolicy, "", ip, t) :
        r \in ConditionalPolicies, ip \in AuditClientIPs, t \in {999, 1000, 1001}}
    \cup {AuditCtx(r, s, n, ip, 2000) :
            r \in {NoAuditPolicy, Approved, Rejected, CondInRange},
            s \in {NoAuditPolicy, Approved, Rejected, CondNoConditions,
                   CondExpired, CondInRange},
            n \in {"", "Srv"}, ip \in AuditClientIPs}

AuditCall(payload, ctx, result) ==
    [called |-> TRUE, payload |-> payload, ctx |-> ctx, result |-> result]

AuditValidate ==
    /\ mode = "audit"
    /\ ~auditCall.called
    /\ \E p \in AuditPayloads, ctx \in AuditCtxs :
        auditCall' = AuditCall(p, ctx, auditValidateRequest(p, ctx))
    /\ UNCHANGED <<mode, pvVars, rlVars, lvVars, batch, cidrCall, sideVars>>

NextAudit == AuditValidate

InitAudit ==
    mode = "audit" /\ InitPVVars /\ InitRLVars /\ InitLVVars /\ InitAuxVars /\ InitSideVars

SpecAudit == InitAudit /\ [][NextAudit]_vars

(***************************************************************************)
(* A call of AuditValidator.isIPInCIDR                                     *)
(***************************************************************************)

\* Bits of an IPv4 address: the prefix lengths are 0..AddressBits.
AddressBits == 32

CidrNetworks ==
    {<<0, 0, 0, 0>>, <<10, 0, 0, 0>>, <<192, 168, 1, 77>>, <<255, 255, 255, 255>>}

\* The address ip with bit k (1 is the most significant) inverted.
FlipBit(ip, k) ==
    LET i == ((k - 1) \div 8) + 1
        w == Pow2(7 - ((k - 1) % 8))
    IN [ip EXCEPT ![i] = IF (ip[i] \div w) % 2 = 1 THEN ip[i] - w ELSE ip[i] + w]

\* The networks themselves and every address one bit away from one.
CidrIPs ==
    CidrNetworks \cup {FlipBit(x, k) : x \in CidrNetworks, k \in 1..AddressBits}

CidrCall(ip, range, result) ==
    [called |-> TRUE, ip |-> ip, cidr |-> range, result |-> result]

IsIPInCIDR ==
    /\ mode = "cidr"
    /\ ~cidrCall.called
    /\ \E y \in CidrIPs, x \in CidrNetworks, b \in 0..AddressBits :
        LET range == [addr |-> x, bits |-> b] IN
        cidrCall' = CidrCall(y, range, isIPInCIDR(y, range))
    /\ UNCHANGED <<mode, pvVars, rlVars, lvVars, batch, auditCall, sideVars>>

NextCidr == IsIPInCIDR

InitCidr ==
    mode = "cidr" /\ InitPVVars /\ InitRLVars /\ InitLVVars /\ InitAuxVars /\ InitSideVars

SpecCidr == InitCidr /\ [][NextCidr]_vars

(***************************************************************************)
(* McpMetadataValidator: the metadata auditor of tools/list responses      *)
(***************************************************************************)

\* Tools of the longest tools/list response.
MaxTools == 7

\* Tools of a response whose LLM answers range over every score.
MaxScoredTools == 2

MAX_CONCURRENT == 5

\* The scores are hundredths: 75 is 0.75 and 70 is 0.7.
MaliciousThreshold == 75

MatchThreshold == 70

\* What callLLM and the JSON.parse of its cleaned content come to: an
\* LLMValidationResponse, or an exception (non-2xx, no content, bad JSON).
LLMAnswer(kind, isMalicious, maliciousMatchScore, toolNameDescriptionMatchScore) ==
    [kind |-> kind, isMalicious |-> isMalicious,
     maliciousMatchScore |-> maliciousMatchScore,
     toolNameDescriptionMatchScore |-> toolNameDescriptionMatchScore]

NoAnswer == LLMAnswer("none", FALSE, 0, 0)

LLMFailure == LLMAnswer("threw", FALSE, 0, 0)

\* The test of validateTool with >= and <= in place of > and <.
shouldReportInclusive(resp) ==
    \/ resp.maliciousMatchScore >= MaliciousThreshold
    \/ resp.toolNameDescriptionMatchScore <= MatchThreshold

\* validateTool: maliciousMatchScore > 0.75 || toolNameDescriptionMatchScore < 0.7
shouldReport(resp) ==
    \/ resp.maliciousMatchScore > MaliciousThreshold
    \/ resp.toolNameDescriptionMatchScore < MatchThreshold

\* The loop waits on Promise.race only once the array is longer than
\* MAX_CONCURRENT.
mustWaitLate(length) == length > MAX_CONCURRENT

\* validateToolsAsync: `if (validationPromises.length >= MAX_CONCURRENT)`.
mustWait(length) == length >= MAX_CONCURRENT

MetaEndpoint == "/mcp"

\* reportToolThreat: the reports it hands to reportThreat, which POSTs each
\* to the threat backend with `Bearer <aktoApiToken>`; no token is tested.
reportToolThreat(tool, token) ==
    <<[policy_id |-> "MCPMaliciousComponent",
       endpoint |-> <<MetaEndpoint, "/tools/list/", tool.name>>,
       responseTools |-> <<tool>>,
       bearer |-> token]>>

Tool(name, description) == [name |-> name, description |-> description]

ToolPool ==
    {Tool("", "no name"), Tool("read_file", "reads a file"),
     Tool("exec", "runs a command")}

ScoredAnswers ==
    {LLMAnswer("ok", m, s, d) :
        m \in BOOLEAN, s \in {MaliciousThreshold, MaliciousThreshold + 1},
        d \in {MatchThreshold - 1, MatchThreshold}}
    \cup {LLMFailure}

FlaggedAnswers == {LLMAnswer("ok", TRUE, MaliciousThreshold + 1, MatchThreshold)}

\* A call of the auditor in a deployment: tbsToken is the deployment's
\* THREAT_BACKEND_TOKEN, token the aktoApiToken the auditor is built with.
MetaInput(method, response, tools, tbsToken, token, llm) ==
    [method |-> method, response |-> response, tools |-> tools,
     tbsToken |-> tbsToken, token |-> token, llm |-> llm]

MetaTokens ==
    {<<"", "">>, <<"", "akto-token">>, <<"tbs-token", "akto-token">>}

\* Short tool lists with every LLM answer and both tokens; the longest
\* lists with flagged tools; and the calls that validate nothing.
MetaInputs ==
    {MetaInput("tools/list", "tools", ts, tk[1], tk[2], ScoredAnswers) :
        ts \in UNION {[1..n -> ToolPool] : n \in 0..MaxScoredTools},
        tk \in MetaTokens}
    \cup {MetaInput("tools/list", "tools", ts, "tbs-token", "akto-token",
                     FlaggedAnswers) :
            ts \in {[i \in 1..MaxTools |-> Tool("read_file", "reads a file")],
                    [i \in 1..MaxTools |->
                        IF i = 1 THEN Tool("", "no name")
                        ELSE Tool("read_file", "reads a file")]}}
    \cup {MetaInput(m, r, <<>>, "tbs-token", "akto-token", ScoredAnswers) :
            m \in {"tools/list", "tools/call", ""},
            r \in {"noresult", "notjson"}}

\* The tool validations that have started and not completed.
InFlightTools == {i \in DOMAIN meta.phase : meta.phase[i] \in {"llm", "report"}}

\* validateTool(tools[i]) is called and its promise pushed: a tool with no
\* name returns at once, every other tool awaits callLLM.
pushTool(m, i) ==
    [m EXCEPT !.next = i,
              !.promises = @ \cup {i},
              !.phase[i] = IF m.tools[i].name = "" THEN "returned" ELSE "llm"]

\* Tools of the longest list whose validation is followed to its end: one
\* more than MAX_CONCURRENT, so that the loop waits on Promise.race.
MaxLiveTools == 6

\* Tools of the longest list of these whose LLM answers are mixed.
MaxMixedTools == 2

CleanAnswers == {LLMAnswer("ok", FALSE, MaliciousThreshold, MatchThreshold)}

\* Lists whose every LLM call fails, lists whose every tool is flagged, and
\* short lists with failing, flagged and clean answers mixed.
LiveInputs ==
    {MetaInput("tools/list", "tools",
               [i \in 1..n |-> Tool("read_file", "reads a file")],
               "tbs-token", "akto-token", llm) :
        n \in 1..MaxLiveTools, llm \in {{LLMFailure}, FlaggedAnswers}}
    \cup {MetaInput("tools/list", "tools", ts, "tbs-token", "akto-token",
                     {LLMFailure} \cup FlaggedAnswers \cup CleanAnswers) :
            ts \in UNION {[1..n -> ToolPool] : n \in 0..MaxMixedTools}}

\* The auditor as checked for safety ("meta") and as followed to the end
\* of a call ("metalive").
MetaModes == {"meta", "metalive"}

\* validateMcpMetadataAsync and validateToolsAsync up to the loop.
validateMcpMetadataAsync ==
    /\ mode \in MetaModes
    /\ meta.state = "idle"
    /\ \E in \in (IF mode = "meta" THEN MetaInputs ELSE LiveInputs) :
        meta' = [meta EXCEPT
                    !.state = IF in.method = "tools/list" /\ in.response = "tools"
                                 /\ Len(in.tools) > 0
                              THEN "loop" ELSE "done",
                    !.tbsToken = in.tbsToken, !.token = in.token,
                    !.llm = in.llm, !.tools = in.tools,
                    !.phase = [i \in DOMAIN in.tools |-> "new"],
                    !.answer = [i \in DOMAIN in.tools |-> NoAnswer],
                    !.reports = [i \in DOMAIN in.tools |-> <<>>]]
    /\ UNCHANGED <<mode, pvVars, rlVars, lvVars, auxVars, threatPost, fetchCall, ingress>>

\* One iteration of `for (const tool of tools)` up to its await, or the
\* end of the loop.
ForIteration ==
    /\ mode \in MetaModes
    /\ meta.state = "loop"
    /\ meta' = IF meta.next = Len(meta.tools) THEN [meta EXCEPT !.state = "all"]
               ELSE IF mustWait(Cardinality(meta.promises))
               THEN [meta EXCEPT !.state = "race"]
               ELSE pushTool(meta, meta.next + 1)
    /\ UNCHANGED <<mode, pvVars, rlVars, lvVars, auxVars, threatPost, fetchCall, ingress>>

\* `await Promise.race(validationPromises)` has resolved: the tool is
\* validated and pushed without a second look at the array's length.
RaceResumes ==
    /\ mode \in MetaModes
    /\ meta.state = "resume"
    /\ meta' = [pushTool(meta, meta.next + 1) EXCEPT !.state = "loop"]
    /\ UNCHANGED <<mode, pvVars, rlVars, lvVars, auxVars, threatPost, fetchCall, ingress>>

\* validateTool without its try block: a failed LLM call rejects the
\* tool's promise, the pending race or Promise.all rejects with it and the
\* catch of validateToolsAsync ends the call.
LLMAnswersUncaught(i) ==
    /\ mode \in MetaModes
    /\ i \in DOMAIN meta.phase
    /\ meta.phase[i] = "llm"
    /\ \E a \in meta.llm :
        meta' = IF a.kind = "ok" /\ shouldReport(a)
                THEN [meta EXCEPT !.answer[i] = a, !.phase[i] = "report",
                                  !.reports[i] =
                                      @ \o reportToolThreat(meta.tools[i], meta.token)]
                ELSE IF a.kind = "ok"
                THEN [meta EXCEPT !.answer[i] = a, !.phase[i] = "returned"]
                ELSE [meta EXCEPT !.answer[i] = a, !.phase[i] = "done",
                                  !.promises = @ \ {i},
                                  !.state = IF @ \in {"race", "all"} THEN "done" ELSE @]
    /\ UNCHANGED <<mode, pvVars, rlVars, lvVars, auxVars, threatPost, fetchCall, ingress>>

\* callLLM of tool i answers: validateTool reports the tool or returns.
LLMAnswers(i) ==
    /\ mode \in MetaModes
    /\ i \in DOMAIN meta.phase
    /\ meta.phase[i] = "llm"
    /\ \E a \in meta.llm :
        meta' = IF a.kind = "ok" /\ shouldReport(a)
                THEN [meta EXCEPT !.answer[i] = a, !.phase[i] = "report",
                                  !.reports[i] =
                                      @ \o reportToolThreat(meta.tools[i], meta.token)]
                ELSE [meta EXCEPT !.answer[i] = a, !.phase[i] = "returned"]
    /\ UNCHANGED <<mode, pvVars, rlVars, lvVars, auxVars, threatPost, fetchCall, ingress>>

\* reportThreat of tool i settles; it swallows the POST's failure.
ToolReportSettles(i) ==
    /\ mode \in MetaModes
    /\ i \in DOMAIN meta.phase
    /\ meta.phase[i] = "report"
    /\ meta' = [meta EXCEPT !.phase[i] = "returned"]
    /\ UNCHANGED <<mode, pvVars, rlVars, lvVars, auxVars, threatPost, fetchCall, ingress>>

\* The finally callback of tool i splices its promise out of the array; a
\* pending Promise.race resolves.
ToolFinally(i) ==
    /\ mode \in MetaModes
    /\ i \in DOMAIN meta.phase
    /\ meta.phase[i] = "returned"
    /\ meta' = [meta EXCEPT !.phase[i] = "done",
                            !.promises = @ \ {i},
                            !.state = IF @ = "race" THEN "resume" ELSE @]
    /\ UNCHANGED <<mode, pvVars, rlVars, lvVars, auxVars, threatPost, fetchCall, ingress>>

\* `await Promise.all(validationPromises)` resolves.
AllSettled ==
    /\ mode \in MetaModes
    /\ meta.state = "all"
    /\ meta.promises = {}
    /\ meta' = [meta EXCEPT !.state = "done"]
    /\ UNCHANGED <<mode, pvVars, rlVars, lvVars, auxVars, threatPost, fetchCall, ingress>>

NextMeta ==
    \/ validateMcpMetadataAsync
    \/ ForIteration
    \/ RaceResumes
    \/ \E i \in 1..MaxTools : LLMAnswers(i)
    \/ \E i \in 1..MaxTools : ToolReportSettles(i)
    \/ \E i \in 1..MaxTools : ToolFinally(i)
    \/ AllSettled

InitMeta ==
    /\ mode = "meta"
    /\ InitPVVars /\ InitRLVars /\ InitLVVars /\ InitAuxVars /\ InitSideVars

SpecMeta == InitMeta /\ [][NextMeta]_vars

InitMetaLive ==
    /\ mode = "metalive"
    /\ InitPVVars /\ InitRLVars /\ InitLVVars /\ InitAuxVars /\ InitSideVars

\* The event loop runs every continuation that is ready (the loop, the
\* finally callbacks, the resumption of an await), and every LLM call
\* completes; the POST of a threat report has no deadline and is not
\* assumed to complete.
MetaFairness ==
    /\ WF_vars(ForIteration)
    /\ WF_vars(RaceResumes)
    /\ WF_vars(AllSettled)
    /\ \A i \in 1..MaxLiveTools : WF_vars(ToolFinally(i))
    /\ \A i \in 1..MaxLiveTools : WF_vars(LLMAnswers(i))

SpecMetaLive == InitMetaLive /\ [][NextMeta]_vars /\ MetaFairness

(***************************************************************************)

(* MCPProcessor.reportThreatAsync: the detached threat report              *)
(***************************************************************************)

\* The validation results a processor call may have to act on.
ReportResults ==
    {AllowResult,
     Result(FALSE, FALSE, NoText, <<"Blocked due to PII detection: ", "email">>,
            "MCPGuardrails", "", ""),
     Result(FALSE, FALSE, NoText, NoReason, "", "", ""),
     Result(FALSE, FALSE, NoText, <<"Resource access has been rejected by Audit Policy">>,
            AUDIT_POLICY_CATEGORY, "", ""),
     Result(TRUE, TRUE, Text("raw", <<"[REDACTED]">>, FALSE), NoReason,
            "MCPGuardrails", "", ""),
     Result(TRUE, TRUE, Text("raw", <<"hello", "[REDACTED]">>, FALSE), NoReason,
            "MCPGuardrails", "", ""),
     Result(TRUE, TRUE, NoText, NoReason, "", "", "")}

\* The validation context of a record as handleBatchValidation builds it:
\* the record's request and response payloads.
RecordCtx == [requestPayload |-> "rawRequest", responsePayload |-> "rawResponse"]

NoBody == [requestPayload |-> "", responsePayload |-> ""]

\* The writes of processRequest / processResponse to the caller's valCtx
\* object over the validation result v.
ctxAfter(side, v, ctx) ==
    LET c == IF side = "request"
             THEN [ctx EXCEPT !.requestPayload = "rawRequest"]
             ELSE [ctx EXCEPT !.responsePayload = "rawResponse"]
    IN
    IF ~v.allowed THEN [c EXCEPT !.responsePayload = "blockedResponse"]
    ELSE IF v.modified /\ v.modifiedPayload # NoText
    THEN IF side = "request" THEN [c EXCEPT !.requestPayload = "modifiedPayload"]
         ELSE [c EXCEPT !.responsePayload = "modifiedPayload"]
    ELSE c

\* The request body reportThreat serialises from valCtx before its fetch.
requestBody(ctx) ==
    [requestPayload |-> ctx.requestPayload, responsePayload |-> ctx.responsePayload]

\* A POST that reads the context when it is delivered.
bodyDeliveredLive(body, ctx) == requestBody(ctx)

\* What the backend receives: the string handed to fetch, whatever has
\* been written to valCtx since.
bodyDelivered(body, ctx) == body

\* `if (this.executionCtx) this.executionCtx.waitUntil(promise)`.
waitUntilCalls(hasCtx) == IF hasCtx THEN 1 ELSE 0

\* reportThreat rethrows what its POST came to.
reportThreatRethrows(outcome) == IF outcome = "ok" THEN "fulfilled" ELSE "rejected"

\* The promise of reportThreat(...).catch(...) once the POST has come to
\* outcome: reportThreat catches every error, its own throw on a non-2xx
\* included, and the .catch handler only logs.
reportThreatSettles(outcome) == "fulfilled"

\* The end of processRequest / processResponse over the validation result:
\* reportThreatAsync runs reportThreat up to its first await (the POST is
\* issued, or building the event throws and is caught), hands the promise
\* to waitUntil, and the result is returned in the same turn.
ProcessorReturns ==
    /\ mode = "report"
    /\ threatPost.state = "idle"
    /\ \E v \in ReportResults, side \in {"request", "response"},
          tk \in {"", "tbs-token"}, hasCtx \in BOOLEAN, sent \in BOOLEAN :
        LET n == reportsFor(v, tk) IN
        threatPost' =
            [state |-> "returned", side |-> side, result |-> v, tbsToken |-> tk,
             hasCtx |-> hasCtx,
             post |-> IF n = 0 THEN "none" ELSE IF sent THEN "pending" ELSE "unsent",
             promise |-> IF n = 0 THEN "none"
                         ELSE IF sent THEN "pending" ELSE reportThreatSettles("threw"),
             waitUntil |-> IF n = 0 THEN 0 ELSE waitUntilCalls(hasCtx),
             returned |-> TRUE, procResult |-> processOutcome(v),
             raised |-> FALSE,
             valCtx |-> ctxAfter(side, v, RecordCtx),
             body |-> IF n > 0 /\ sent THEN requestBody(ctxAfter(side, v, RecordCtx))
                      ELSE NoBody,
             delivered |-> NoBody,
             responseHalf |-> FALSE]
    /\ UNCHANGED <<mode, pvVars, rlVars, lvVars, auxVars, meta, fetchCall, ingress>>

\* The POST to the threat backend completes (2xx, non-2xx, or fetch
\* throws) after the processor has returned; it may also never complete.
ThreatPostSettles ==
    /\ mode = "report"
    /\ threatPost.state = "returned"
    /\ threatPost.post = "pending"
    /\ \E outcome \in {"ok", "non2xx", "threw"} :
        threatPost' = [threatPost EXCEPT
                          !.post = outcome,
                          !.delivered = IF outcome = "threw" THEN NoBody
                                        ELSE bodyDelivered(threatPost.body,
                                                           threatPost.valCtx),
                          !.promise = reportThreatSettles(outcome),
                          !.raised = (reportThreatSettles(outcome) = "rejected"
                                      /\ threatPost.waitUntil = 0)]
    /\ UNCHANGED <<mode, pvVars, rlVars, lvVars, auxVars, meta, fetchCall, ingress>>

\* handleBatchValidation goes on to the response half of the record after
\* processRequest has returned: processResponse writes the record's response
\* payload to the same valCtx object when it parses.  (A report of the
\* response half is a POST of its own.)
BatchValidatesResponse ==
    /\ mode = "report"
    /\ threatPost.state = "returned"
    /\ threatPost.side = "request"
    /\ ~threatPost.responseHalf
    /\ \E parses \in BOOLEAN :
        threatPost' = [threatPost EXCEPT
                          !.responseHalf = TRUE,
                          !.valCtx = IF parses
                                     THEN [@ EXCEPT !.responsePayload = "rawResponse"]
                                     ELSE @]
    /\ UNCHANGED <<mode, pvVars, rlVars, lvVars, auxVars, meta, fetchCall, ingress>>

NextReport ==
    \/ ProcessorReturns
    \/ ThreatPostSettles
    \/ BatchValidatesResponse

InitReport ==
    /\ mode = "report"
    /\ InitPVVars /\ InitRLVars /\ InitLVVars /\ InitAuxVars /\ InitSideVars

SpecReport == InitReport /\ [][NextReport]_vars

(***************************************************************************)

(* policy-manager: fetchGuardrailPolicies and fetchMcpAuditInfo            *)
(***************************************************************************)

\* Entries of the longest list a fetch returns.
MaxFetched == 3

\* GuardrailsPolicy, as far as the conversion reads it: the two content
\* filters, deniedTopics (each a topic with the number of its sample
\* phrases), piiTypes (each a type and a behavior) and regexPatternsV2 (each
\* a pattern and an action, "" when it has none).
GuardrailsPolicy(name, active, applyOnRequest, applyOnResponse, harmfulCategories, promptAttacks, deniedTopics, piiTypes, regexPatternsV2) ==
    [name |-> name, active |-> active, applyOnRequest |-> applyOnRequest,
     applyOnResponse |-> applyOnResponse, harmfulCategories |-> harmfulCategories,
     promptAttacks |-> promptAttacks, deniedTopics |-> deniedTopics,
     piiTypes |-> piiTypes, regexPatternsV2 |-> regexPatternsV2]

RECURSIVE phraseCount(_, _)
phraseCount(deniedTopics, i) ==
    IF i > Len(deniedTopics) THEN 0
    ELSE deniedTopics[i].samplePhrases + phraseCount(deniedTopics, i + 1)

\* Both sides of a converted policy, from the rules that may go to either
\* side and the rules that go to the request side only.
ConvertedPolicy(gp, requestOnly, bothSides) ==
    Policy("MCPGuardrails", gp.active,
           IF gp.applyOnRequest THEN requestOnly \o bothSides ELSE <<>>,
           IF gp.applyOnResponse THEN bothSides ELSE <<>>)

\* The rules that convertGuardrailsToPolicy offers to both sides.
BothSidesRules(gp) ==
    (IF Len(gp.deniedTopics) > 0 THEN <<Rule("banTopics", "", "block")>> ELSE <<>>)
    \o (IF phraseCount(gp.deniedTopics, 1) > 0
        THEN <<Rule("banSubstrings", "", "block")>> ELSE <<>>)
    \o [i \in DOMAIN gp.piiTypes |->
          Rule("pii", gp.piiTypes[i].type,
               IF gp.piiTypes[i].behavior = "mask" THEN "redact" ELSE "block")]
    \o [i \in DOMAIN gp.regexPatternsV2 |->
          Rule("regex", gp.regexPatternsV2[i].pattern,
               IF gp.regexPatternsV2[i].action # ""
               THEN gp.regexPatternsV2[i].action ELSE "block")]

ContentRules(gp) ==
    (IF gp.harmfulCategories THEN <<Rule("harmfulCategories", "", "block")>> ELSE <<>>)
    \o (IF gp.promptAttacks THEN <<Rule("promptAttacks", "", "block")>> ELSE <<>>)

\* The two content filters are added to the response rules as well.
convertGuardrailsToPolicyBothSides(gp) ==
    ConvertedPolicy(gp, <<>>, ContentRules(gp) \o BothSidesRules(gp))

convertGuardrailsToPolicy(gp) ==
    ConvertedPolicy(gp, ContentRules(gp), BothSidesRules(gp))

\* The loop of fetchGuardrailPolicies over data.guardrailPolicies.
RECURSIVE activePolicies(_, _)
activePolicies(list, i) ==
    IF i > Len(list) THEN <<>>
    ELSE (IF list[i].active THEN <<convertGuardrailsToPolicy(list[i])>> ELSE <<>>)
         \o activePolicies(list, i + 1)

\* An entry of mcpAuditInfoList: null, or an AuditPolicy with its
\* resourceName.
AuditInfo(isNull, resourceName, remarks) ==
    [isNull |-> isNull, resourceName |-> resourceName, remarks |-> remarks]

\* The loop of fetchMcpAuditInfo over data.mcpAuditInfoList:
\* auditPolicies[policy.resourceName] = policy, a later entry replacing an
\* earlier one under the same key.
RECURSIVE auditMap(_, _, _)
auditMap(list, i, acc) ==
    IF i > Len(list) THEN acc
    ELSE auditMap(list, i + 1,
            IF ~list[i].isNull /\ list[i].resourceName # ""
            THEN (list[i].resourceName :> list[i]) @@ acc
            ELSE acc)

FetchOutcome(thrown, policies, auditPolicies) ==
    [threw |-> thrown, policies |-> policies, auditPolicies |-> auditPolicies]

\* What the POST came to: a 2xx with a JSON body holding the list ("ok"),
\* a 2xx whose body is the JSON null ("null"), a 2xx whose body is not
\* JSON ("notjson"), a non-2xx, or a network error of fetch.
FetchResponses == {"ok", "null", "notjson", "non2xx", "network"}

fetchGuardrailPolicies(response, list) ==
    IF response = "ok" THEN FetchOutcome(FALSE, activePolicies(list, 1), <<>>)
    ELSE FetchOutcome(TRUE, <<>>, <<>>)

\* fetchMcpAuditInfo without its try block.
fetchMcpAuditInfoNoCatch(response, list) ==
    IF response = "ok" THEN FetchOutcome(FALSE, <<>>, auditMap(list, 1, <<>>))
    ELSE IF response = "non2xx" THEN FetchOutcome(FALSE, <<>>, <<>>)
    ELSE FetchOutcome(TRUE, <<>>, <<>>)

\* The whole body is inside try/catch: every failure returns {}.
fetchMcpAuditInfo(response, list) ==
    IF response = "ok" THEN FetchOutcome(FALSE, <<>>, auditMap(list, 1, <<>>))
    ELSE FetchOutcome(FALSE, <<>>, <<>>)

PiiType(type, behavior) == [type |-> type, behavior |-> behavior]

GuardrailsPool ==
    {GuardrailsPolicy("g1", TRUE, TRUE, FALSE, FALSE, TRUE, <<>>, <<>>, <<>>),
     GuardrailsPolicy("g2", TRUE, TRUE, TRUE, FALSE, FALSE, <<>>,
                      <<PiiType("email", "mask")>>, <<>>),
     GuardrailsPolicy("g3", FALSE, TRUE, TRUE, FALSE, TRUE, <<>>,
                      <<PiiType("email", "block")>>, <<>>)}

\* Every setting of the toggles and apply-on flags, with no, one or two
\* denied topics, PII types and regex patterns.
AllGuardrails ==
    {GuardrailsPolicy("g", a, rq, rs, h, pa, dt, pii, rx) :
        a \in BOOLEAN, rq \in BOOLEAN, rs \in BOOLEAN, h \in BOOLEAN, pa \in BOOLEAN,
        dt \in {<<>>, <<[topic |-> "politics", samplePhrases |-> 0]>>,
                <<[topic |-> "politics", samplePhrases |-> 0],
                  [topic |-> "religion", samplePhrases |-> 2]>>},
        pii \in {<<>>, <<PiiType("email", "mask")>>,
                 <<PiiType("email", "block"), PiiType("ssn", "mask")>>},
        rx \in {<<>>, <<[pattern |-> "secret", action |-> ""]>>,
                <<[pattern |-> "secret", action |-> "redact"],
                  [pattern |-> "key", action |-> "block"]>>}}

\* The responses that validateResponse is given after a fetch.
FetchedResponses ==
    {Payload("text", "", FALSE, "", "", PII, FALSE),
     Payload("json", "", TRUE, "", "", PII, FALSE)}

\* convertGuardrailsToPolicy over a whole list, inactive policies included.
convertAll(list) == [i \in DOMAIN list |-> convertGuardrailsToPolicy(list[i])]

AuditInfoPool ==
    {AuditInfo(TRUE, "", ""), AuditInfo(FALSE, "", "Rejected"),
     AuditInfo(FALSE, "delete_all", "Rejected"),
     AuditInfo(FALSE, "Srv", "Rejected"),
     AuditInfo(FALSE, "srv", "Conditionally Approved")}

\* The POST of a fetch is issued.
FetchStart ==
    /\ mode = "fetch"
    /\ fetchCall.state = "idle"
    /\ \E fn \in {"fetchGuardrailPolicies", "fetchMcpAuditInfo"} :
        fetchCall' = [fetchCall EXCEPT !.state = "pending", !.fn = fn]
    /\ UNCHANGED <<mode, pvVars, rlVars, lvVars, auxVars, meta, threatPost, ingress>>

\* The POST completes and the fetch returns or throws.
FetchReturn ==
    /\ mode = "fetch"
    /\ fetchCall.state = "pending"
    /\ \E response \in FetchResponses, n \in 0..MaxFetched :
        \E list \in [1..n -> IF fetchCall.fn = "fetchMcpAuditInfo"
                             THEN AuditInfoPool ELSE GuardrailsPool]
                    \cup (IF fetchCall.fn = "fetchMcpAuditInfo" \/ n # 1 THEN {}
                          ELSE [1..1 -> AllGuardrails]) :
            LET o == IF fetchCall.fn = "fetchMcpAuditInfo"
                     THEN fetchMcpAuditInfo(response, list)
                     ELSE fetchGuardrailPolicies(response, list)
            IN /\ (response # "ok" => n = 0)
               /\ fetchCall' = [fetchCall EXCEPT
                                   !.state = "done",
                                   !.response = response, !.list = list,
                                   !.threw = o.threw, !.policies = o.policies,
                                   !.auditPolicies = o.auditPolicies]
    /\ UNCHANGED <<mode, pvVars, rlVars, lvVars, auxVars, meta, threatPost, ingress>>

\* validateResponse is called with a response payload and the policies
\* that were fetched, or with the conversion of every policy of the list.
FetchedValidateResponse ==
    /\ mode = "fetch"
    /\ fetchCall.state = "done"
    /\ fetchCall.fn = "fetchGuardrailPolicies"
    /\ ~fetchCall.threw
    /\ \E p \in FetchedResponses,
          ps \in {fetchCall.policies, convertAll(fetchCall.list)} :
        fetchCall' = [fetchCall EXCEPT
                         !.state = "validated", !.validated = ps, !.payload = p,
                         !.outcome = validateResponseStart(p, ps)]
    /\ UNCHANGED <<mode, pvVars, rlVars, lvVars, auxVars, meta, threatPost, ingress>>

NextFetch ==
    \/ FetchStart
    \/ FetchReturn
    \/ FetchedValidateResponse

InitFetch ==
    /\ mode = "fetch"
    /\ InitPVVars /\ InitRLVars /\ InitLVVars /\ InitAuxVars /\ InitSideVars

SpecFetch == InitFetch /\ [][NextFetch]_vars

(***************************************************************************)

(* Ingress worker: /api/ingestData, /api/validate/request and              *)
(* /api/validate/response                                                  *)
(***************************************************************************)

\* Records of the longest batch posted to /api/ingestData.
MaxIngested == 2

IngressEndpoints == {"/api/ingestData", "/api/validate/request", "/api/validate/response"}

\* Values of the ENABLE_MCP_GUARDRAILS variable: set to "true", set to
\* "false", and unset.
FlagValues == {"true", "false", ""}

\* mcpGuardrailsEnabled, which only /api/ingestData computes.
mcpGuardrailsEnabled(flag) == flag = "true"

\* The policy fetches of an endpoint. handleBatchValidation fetches only
\* when both dbUrl and dbToken are truthy (dbUrl always is, by its default);
\* the two single-payload endpoints fetch whatever the token is.
fetchesOf(endpoint, dbToken) ==
    IF endpoint = "/api/ingestData"
    THEN IF dbToken # "" THEN {"fetchGuardrailPolicies", "fetchMcpAuditInfo"} ELSE {}
    ELSE IF endpoint = "/api/validate/request"
    THEN {"fetchGuardrailPolicies", "fetchMcpAuditInfo"}
    ELSE {"fetchGuardrailPolicies"}

\* The processor calls of an endpoint once its policies are there: two for
\* each batch record with both payloads, one for a single payload.
validationsOf(endpoint, records) ==
    IF endpoint = "/api/ingestData" THEN 2 * records ELSE 1

\* A request reaches one of the three endpoints. /api/ingestData with the
\* flag off forwards the request to the container and answers; in every
\* other case the handler goes on to its policies, /api/ingestData having
\* handed a clone of the request to the container as well.
IngressReceive ==
    /\ mode = "ingress"
    /\ ingress.state = "idle"
    /\ \E endpoint \in IngressEndpoints, flag \in FlagValues,
          dbToken \in {"", "akto-token"}, records \in 0..MaxIngested :
        /\ (endpoint # "/api/ingestData" => records = 1)
        /\ ingress' =
             IF endpoint = "/api/ingestData" /\ ~mcpGuardrailsEnabled(flag)
             THEN [NoIngress EXCEPT !.state = "forwarding", !.endpoint = endpoint,
                                    !.flag = flag, !.dbToken = dbToken,
                                    !.records = records, !.forwarded = TRUE]
             ELSE [NoIngress EXCEPT !.state = "policies", !.endpoint = endpoint,
                                    !.flag = flag, !.dbToken = dbToken,
                                    !.records = records,
                                    !.forwarded = (endpoint = "/api/ingestData")]
    /\ UNCHANGED <<mode, pvVars, rlVars, lvVars, auxVars, meta, threatPost, fetchCall>>

\* The container answers the forwarded request and the worker answers
\* "Data ingested (MCP guardrails disabled)".
IngressForwarded ==
    /\ mode = "ingress"
    /\ ingress.state = "forwarding"
    /\ ingress' = [ingress EXCEPT !.state = "done", !.status = "ok"]
    /\ UNCHANGED <<mode, pvVars, rlVars, lvVars, auxVars, meta, threatPost, fetchCall>>

\* The policy fetches of the endpoint are issued and settle; a non-2xx
\* answer to fetchGuardrailPolicies throws out of the handler, and
\* hasAuditRules tells whether the audit fetch returned any policy.
IngressFetch ==
    /\ mode = "ingress"
    /\ ingress.state = "policies"
    /\ \E response \in {"ok", "non2xx"}, n \in 0..1 :
        \E list \in [1..n -> AuditInfoPool] :
        LET fetches == fetchesOf(ingress.endpoint, ingress.dbToken)
            o == fetchGuardrailPolicies(response, <<>>)
            a == fetchMcpAuditInfo("ok", list)
        IN /\ (fetches = {} => response = "ok")
           /\ ("fetchMcpAuditInfo" \notin fetches => n = 0)
           /\ ingress' =
                IF fetches # {} /\ o.threw
                THEN [ingress EXCEPT !.state = "done", !.fetched = fetches,
                                     !.status = "error"]
                ELSE [ingress EXCEPT !.state = "validating", !.fetched = fetches,
                                     !.hasAuditRules = (DOMAIN a.auditPolicies # {})]
    /\ UNCHANGED <<mode, pvVars, rlVars, lvVars, auxVars, meta, threatPost, fetchCall>>

\* The processor is run on the payloads and the worker answers.
IngressValidate ==
    /\ mode = "ingress"
    /\ ingress.state = "validating"
    /\ ingress' = [ingress EXCEPT
                      !.state = "done", !.status = "ok",
                      !.validated = validationsOf(ingress.endpoint, ingress.records)]
    /\ UNCHANGED <<mode, pvVars, rlVars, lvVars, auxVars, meta, threatPost, fetchCall>>

\* The worker takes its next request.
IngressNext ==
    /\ mode = "ingress"
    /\ ingress.state = "done"
    /\ ingress' = NoIngress
    /\ UNCHANGED <<mode, pvVars, rlVars, lvVars, auxVars, meta, threatPost, fetchCall>>

NextIngress ==
    \/ IngressReceive
    \/ IngressForwarded
    \/ IngressFetch
    \/ IngressValidate
    \/ IngressNext

InitIngress ==
    /\ mode = "ingress"
    /\ InitPVVars /\ InitRLVars /\ InitLVVars /\ InitAuxVars /\ InitSideVars

SpecIngress == InitIngress /\ [][NextIngress]_vars

(***************************************************************************)

(* Every component                                                         *)
(***************************************************************************)

Init ==
    \/ InitPV
    \/ InitRLSeq
    \/ InitRLConc
    \/ InitLocal
    \/ InitBatch
    \/ InitAudit
    \/ InitCidr
    \/ InitRLFail
    \/ InitMeta
    \/ InitReport
    \/ InitFetch
    \/ InitIngress

Next ==
    \/ NextPV
    \/ NextRLSeq
    \/ NextRLConc
    \/ NextLocal
    \/ NextBatch
    \/ NextAudit
    \/ NextCidr
    \/ NextRLFail
    \/ NextMeta
    \/ NextReport
    \/ NextFetch
    \/ NextIngress

Spec == Init /\ [][Next]_vars

\* The components whose calls are made one at a time and return a result.
InitResults ==
    \/ InitPV
    \/ InitRLSeq
    \/ InitLocal
    \/ InitBatch
    \/ InitAudit

NextResults ==
    \/ NextPV
    \/ NextRLSeq
    \/ NextLocal
    \/ NextBatch
    \/ NextAudit

SpecResults == InitResults /\ [][NextResults]_vars

(***************************************************************************)
(* Properties of the policy validator and the processor                    *)
(***************************************************************************)

\* The call has returned a ValidationResult of validateRequest.
RequestValidated ==
    pc = "done" /\ input.side = "request" /\ Validates(input) /\ ~threw

\* The resource a tools/call, prompts/get or resources/read request names.
NamedResource(p) == IF p.method = "resources/read" THEN p.uri ELSE p.name

RejectedReason == <<"Resource access has been rejected by Audit Policy">>

\* C1: a request whose method is one of the eight safe methods is allowed,
\* not modified, and no scanner call is issued for it, whatever its params,
\* the policies and the audit policies.
C1_SafeMethodAllowed ==
    (/\ pc = "done" /\ input.side = "request" /\ Validates(input)
     /\ input.payload.kind = "json"
     /\ input.payload.method \in
            {"initialize", "initialized", "ping", "$/cancelRequest",
             "$/progress", "notifications/initialized",
             "notifications/cancelled", "notifications/progress"})
    => /\ ~threw
       /\ valResult.allowed
       /\ ~valResult.modified
       /\ posts = 0

\* A safe method carrying a tool name and content, under an active policy
\* with a scanner rule and a rejecting audit policy for that name.
C1_Witness ==
    /\ RequestValidated
    /\ input.payload.method = "ping"
    /\ input.payload.name = "delete_all"
    /\ input.payload.content # <<>>
    /\ input.ctx.hasAuditRules
    /\ input.ctx.auditPolicies["delete_all"].remarks = "Rejected"
    /\ Len(input.policies) = 1
    /\ input.policies[1].active
    /\ input.policies[1].requestPayload[1].type = "promptAttacks"
    /\ valResult.allowed
    /\ posts = 0

\* The request names a resource for which the audit map holds a rejecting
\* policy, and audit rules are on.
C2_Rejected ==
    /\ pc = "done" /\ input.side = "request" /\ Validates(input)
    /\ input.ctx.hasAuditRules
    /\ input.payload.kind = "json"
    /\ input.payload.method \in {"tools/call", "prompts/get", "resources/read"}
    /\ input.payload.hasParams
    /\ NamedResource(input.payload) \in DOMAIN input.ctx.auditPolicies
    /\ LET policy == input.ctx.auditPolicies[NamedResource(input.payload)]
       IN policy.present /\ TrimLower(policy.remarks) = "rejected"

\* C2 as stated: a rejecting audit policy for the named resource blocks the
\* request with the reason "Resource access has been rejected by Audit
\* Policy" and policy_id "AuditPolicy", and no scanner call is issued.
C2_RejectedReasonAlways ==
    C2_Rejected
    => /\ ~threw
       /\ ~valResult.allowed
       /\ valResult.reason = RejectedReason
       /\ valResult.policy_id = "AuditPolicy"
       /\ posts = 0

\* C2 as amended: a rejecting audit policy for the named resource blocks the
\* request with policy_id "AuditPolicy" and no scanner call is issued; the
\* reason is "Resource access has been rejected by Audit Policy" unless
\* mcpServerName is set and a conditionally approved policy stored under the
\* lowercased server name blocks first, with its own reason.
C2_RejectedBlocks ==
    C2_Rejected
    => /\ ~threw
       /\ ~valResult.allowed
       /\ valResult.policy_id = "AuditPolicy"
       /\ posts = 0
       /\ \/ valResult.reason = RejectedReason
          \/ /\ input.ctx.mcpServerName # ""
             /\ LowerName(input.ctx.mcpServerName) \in DOMAIN input.ctx.auditPolicies
             /\ TrimLower(input.ctx.auditPolicies[
                    LowerName(input.ctx.mcpServerName)].remarks)
                    = "conditionally approved"
             /\ valResult.reason \in
                    {<<"No approval conditions defined">>,
                     <<"Conditional approval has expired">>,
                     <<"Client IP is not in the allowed list">>}

\* A rejected tool call that an active policy would have sent to a scanner.
C2_Witness ==
    /\ C2_Rejected
    /\ input.payload.method = "tools/call"
    /\ input.payload.content # <<>>
    /\ Len(input.policies) = 1
    /\ input.policies[1].active
    /\ input.policies[1].requestPayload[1].type = "promptAttacks"
    /\ ~valResult.allowed
    /\ valResult.reason = RejectedReason
    /\ posts = 0

\* The composition of the local validators over the request-side rules of
\* the active policies, in rule order: the first block is returned; a
\* redaction rewrites the text the later rules see.
RECURSIVE localByRules(_, _, _, _, _)
localByRules(text, rules, i, policy, acc) ==
    IF i > Len(rules) THEN acc
    ELSE LET t == IF acc.modified THEN acc.modifiedPayload ELSE text
             r == CASE rules[i].type = "pii" ->
                          piiValidate(t, rules[i], policy, NoLastIndex).result
                    [] rules[i].type = "regex" ->
                          regexValidate(t, rules[i], policy)
                    [] OTHER -> AllowResult
         IN IF ~r.allowed THEN r
            ELSE localByRules(text, rules, i + 1, policy,
                              IF r.modified THEN r ELSE acc)

RECURSIVE localByPolicies(_, _, _, _)
localByPolicies(text, policies, i, acc) ==
    IF i > Len(policies) \/ ~acc.allowed THEN acc
    ELSE localByPolicies(text, policies, i + 1,
            IF policies[i].active
            THEN localByRules(text, policies[i].requestPayload, 1, policies[i], acc)
            ELSE acc)

localValidation(text, policies) == localByPolicies(text, policies, 1, AllowResult)

\* C3: when a request-side pii or regex rule with action block of an active
\* policy matches the scannable text, validateRequest returns the local
\* validator's block, with its reason, and has made no scanner call.  (The
\* audit check, which comes first, is off.)
C3_LocalBlockReturned ==
    LET text == extractUserControlledFields(input.payload)
        local == localValidation(text, input.policies)
    IN  (RequestValidated /\ ~input.ctx.hasAuditRules /\ text # NoText
         /\ ~local.allowed)
        => /\ ~valResult.allowed
           /\ valResult.reason = local.reason
           /\ posts = 0

\* C4: when the matching request-side rules of the active policies all
\* redact, validateRequest returns allowed, modified, with the text redacted
\* rule by rule as modifiedPayload.  (The audit check is off and no scanner
\* rejects the text.)
C4_RedactionReturned ==
    LET text == extractUserControlledFields(input.payload)
        local == localValidation(text, input.policies)
    IN  (RequestValidated /\ ~input.ctx.hasAuditRules /\ text # NoText
         /\ local.allowed /\ local.modified
         /\ \A i \in DOMAIN calls :
                ~(calls[i].state = "fulfilled" /\ ~calls[i].result.is_valid))
        => /\ valResult.allowed
           /\ valResult.modified
           /\ valResult.modifiedPayload = local.modifiedPayload

\* The first completed scanner result that is not valid, 0 when there is none.
FirstInvalid ==
    LET bad == {i \in DOMAIN calls :
                    calls[i].state = "fulfilled" /\ ~calls[i].result.is_valid}
    IN IF bad = {} THEN 0 ELSE CHOOSE i \in bad : \A j \in bad : i <= j

\* C5: when a completed scanner result is not valid, the validator blocks,
\* unmodified, with a reason naming that scanner and its risk score and with
\* the policy id of the scanner task that produced the result.
C5_BlockNamesTaskPolicy ==
    (pc = "done" /\ Validates(input) /\ ~threw /\ FirstInvalid # 0)
    => /\ ~valResult.allowed
       /\ ~valResult.modified
       /\ valResult.reason =
            <<"Blocked by scanner: ", calls[FirstInvalid].result.scanner_name,
              " (risk score: ", calls[FirstInvalid].result.risk_score, ")">>
       /\ valResult.policy_id = tasks[FirstInvalid].policyId

\* C6: a scanner call that throws, answers non-2xx or is aborted at the
\* deadline counts as a failure and does not block: scan never raises, its
\* failure_count covers every such call, and with no completed result that is
\* not valid the validator allows, even when every call failed.
C6_FailuresDoNotBlock ==
    (pc = "done" /\ Validates(input) /\ Len(tasks) > 0)
    => /\ ~threw
       /\ ~scanResp.rejected
       /\ scanResp.failure_count >=
            Cardinality({i \in DOMAIN calls : calls[i].state # "fulfilled"})
       /\ (FirstInvalid = 0 => valResult.allowed)

\* Every scanner call of a request failed, each in its own way or at the
\* deadline, and the request is allowed.
C6_Witness ==
    /\ pc = "done" /\ Validates(input) /\ input.side = "request"
    /\ Len(calls) = 2
    /\ calls[1].state = "non2xx"
    /\ calls[2].state = "aborted"
    /\ scanResp.failure_count = 2
    /\ valResult.allowed

\* C9 as stated: a processor call whose validation result is a block or a
\* modify emits exactly one threat report, and a plain allow emits none.
C9_OneReportPerBlock ==
    (pc = "done" /\ input.entry = "processor" /\ Validates(input) /\ ~threw)
    => reports = IF ~valResult.allowed \/ valResult.modified THEN 1 ELSE 0

\* C9 as amended: with a threat-backend token configured, a processor call
\* whose validation result is a block or a modify emits exactly one threat
\* report; a plain allow emits none, and without a token no call emits any.
C9_OneReportWithToken ==
    (pc = "done" /\ input.entry = "processor" /\ Validates(input) /\ ~threw)
    => reports = IF (~valResult.allowed \/ valResult.modified)
                    /\ input.tbsToken # ""
                 THEN 1 ELSE 0

\* A request blocked by a scanner and a response blocked by a scanner, each
\* with a token: one report.
C9_Witness ==
    /\ pc = "done" /\ input.entry = "processor" /\ Validates(input)
    /\ input.tbsToken # ""
    /\ ~valResult.allowed
    /\ valResult.scanner # ""
    /\ procResult.isBlocked
    /\ reports = 1

(***************************************************************************)
(* Properties of the rate-limit validator                                  *)
(***************************************************************************)

\* The completed checks that got as far as checkRateLimit, by position.
ToolCalls == {i \in DOMAIN hist : hist[i].applies}

Least(S) == CHOOSE i \in S : \A j \in S : i <= j

\* Of the sequential checks made within windowSeconds of the first one,
\* exactly the first min(N, limit) are allowed; the first check made after
\* that is allowed again, with count 1.
WindowRespected ==
    ToolCalls # {} =>
        LET end == hist[Least(ToolCalls)].at + cfg.windowSeconds * 1000
            inside == {i \in ToolCalls : hist[i].at <= end}
            after == ToolCalls \ inside
        IN  /\ \A i \in inside :
                    hist[i].result.allowed
                        <=> Cardinality({j \in inside : j <= i}) <= cfg.limit
            /\ after # {} =>
                    /\ hist[Least(after)].result.allowed
                    /\ hist[Least(after)].current_count = 1

C8_CountNeverDecreases ==
    [][\A k \in DOMAIN kv \cap DOMAIN kv' :
            kv'[k].resetAt = kv[k].resetAt => kv'[k].count >= kv[k].count]_vars

\* C8 as amended: the count stored in a cell goes down at an unchanged
\* resetAt only through the write of a check whose read is stale, that is,
\* another check wrote the cell between this check's read and its write (a
\* lost update); a check that writes what it read plus one, or checks that
\* do not overlap, never lower it.
C8_DecreaseOnlyByStaleWrite ==
    [][\A k \in DOMAIN kv \cap DOMAIN kv' :
            (kv'[k].resetAt = kv[k].resetAt /\ kv'[k].count < kv[k].count)
            => \E c \in DOMAIN rl :
                    /\ rl[c].pc = "put" /\ rl'[c].pc = "idle"
                    /\ rl[c].key = k
                    /\ rl[c].data # Data(kv[k])]_vars

\* Two overlapping checks wrote the same window and the later write stored
\* no more than the earlier one.
C8_Witness ==
    /\ mode = "rlc"
    /\ \E i, j \in DOMAIN hist :
        /\ i < j
        /\ hist[i].put /\ hist[j].put
        /\ hist[i].resetAt = hist[j].resetAt
        /\ hist[j].count <= hist[i].count
        /\ hist[j].t < hist[i].at

(***************************************************************************)
(* Properties of every validator                                           *)
(***************************************************************************)

ModifiedIsAllowedWithPayload(r) ==
    r.modified => (r.allowed /\ r.modifiedPayload # NoText)

\* C11: every ValidationResult with modified = true, from the PII or regex
\* validator, the audit or rate-limit validator, or validateRequest /
\* validateResponse, carries a modifiedPayload and has allowed = true; no
\* result is both blocked and modified.
C11_ModifiedImpliesAllowed ==
    /\ ModifiedIsAllowedWithPayload(valResult)
    /\ ModifiedIsAllowedWithPayload(lv.result)
    /\ ModifiedIsAllowedWithPayload(auditCall.result)
    /\ \A i \in DOMAIN hist : ModifiedIsAllowedWithPayload(hist[i].result)

\* A validator redacted a text: its result is modified.
C11_Witness ==
    /\ lv.validator \in {"pii", "regex"}
    /\ lv.rule.action = "redact"
    /\ lv.result.modified
    /\ lv.result.modifiedPayload # lv.text

(***************************************************************************)
(* Properties of handleBatchValidation                                     *)
(***************************************************************************)

\* C12: handleBatchValidation returns exactly one result per input record,
\* in input order with index equal to the record's position: an exception
\* raised while handling a record (its headers, its request half or its
\* response half) never aborts the batch or drops the records after it.
C12_OneResultPerRecord ==
    /\ batch.state # "threw"
    /\ batch.state = "returned" =>
          /\ Len(batch.results) = Len(batch.records)
          /\ \A k \in DOMAIN batch.results : batch.results[k].index = k - 1

(***************************************************************************)
(* Properties of the PII and regex validators                              *)
(***************************************************************************)

\* C13: the PII validator is deterministic across calls: a call with the
\* same text and the same rule as the call before it returns the same
\* result, so a text holding a PII value under a block rule is blocked on
\* every call.
C13_SameCallSameResult ==
    [][(/\ lv.validator = "pii"
        /\ lv'.validator = "pii"
        /\ lv'.text = lv.text
        /\ lv'.rule = lv.rule) => lv'.result = lv.result]_vars

\* Whether token tok of a text still matches the pattern of the rule.
MatchesRule(validator, rule, tok) ==
    IF validator = "pii" THEN piiMatchesToken(LowerType(rule.pattern), tok)
    ELSE regexMatchesToken(rule.pattern, tok)

\* C14: on a match under a redact rule the modifiedPayload has every
\* occurrence of the pattern replaced by the placeholder: nothing that
\* matched the pattern in the original text survives in the modified
\* payload, whether the text has one match or several.
C14_RedactRemovesEveryMatch ==
    (lv.validator \in {"pii", "regex"} /\ lv.result.modified) =>
        \A i \in DOMAIN lv.result.modifiedPayload.tokens :
            ~MatchesRule(lv.validator, lv.rule, lv.result.modifiedPayload.tokens[i])

(***************************************************************************)
(* Properties of the request path for payloads that are not JSON           *)
(***************************************************************************)

\* C15: a non-empty request payload that is not valid JSON is treated as
\* unstructured text: the whole payload is the scannable string, every
\* scanner task of the active policies is run on it, and a rejecting
\* scanner blocks it; it is never allowed merely because it did not parse.
C15_NonJsonScanned ==
    (/\ pc = "done"
     /\ input.side = "request"
     /\ input.payload.kind = "text"
     /\ ~input.skipThreat) =>
        /\ scanText = PayloadText(input.payload)
        /\ tasks = collectScannerTasks(input.policies, 1, "request")
        /\ posts = Len(tasks)
        /\ (\E i \in DOMAIN calls :
                calls[i].state = "fulfilled" /\ ~calls[i].result.is_valid)
              => ~valResult.allowed

(***************************************************************************)
(* Properties of the audit validator                                       *)
(***************************************************************************)

\* The audit call named a resource.
NamesResource ==
    /\ auditCall.called
    /\ auditCall.payload.kind = "json"
    /\ extractResourceName(auditCall.payload) # ""

ResourcePolicy ==
    Lookup(auditCall.ctx.auditPolicies, extractResourceName(auditCall.payload))

ServerPolicy ==
    Lookup(auditCall.ctx.auditPolicies, LowerName(auditCall.ctx.mcpServerName))

\* No server-level policy takes part in the call.
NoServerPolicy == auditCall.ctx.mcpServerName = "" \/ ~ServerPolicy.present

\* A 'conditionally approved' policy that has approval conditions.
Conditional(policy) ==
    /\ policy.present
    /\ TrimLower(policy.remarks) = "conditionally approved"
    /\ policy.hasConditions

Expired(policy) == policy.expiresAt > 0 /\ auditCall.ctx.nowSec > policy.expiresAt

ExpiredBlock ==
    /\ ~auditCall.result.allowed
    /\ auditCall.result.reason = <<"Conditional approval has expired">>

\* C16: for a 'conditionally approved' policy expiry is evaluated before
\* the IP allow-list: when expiresAt > 0 and the current second is greater
\* than expiresAt the request is blocked with 'Conditional approval has
\* expired' whatever the client IP, and when the current second is at most
\* expiresAt, or expiresAt is 0 or absent, expiry never blocks.
C16_ExpiryBeforeIp ==
    /\ (NamesResource /\ NoServerPolicy /\ Conditional(ResourcePolicy)) =>
            (ExpiredBlock <=> Expired(ResourcePolicy))
    /\ (/\ NamesResource
        /\ auditCall.ctx.mcpServerName # ""
        /\ Conditional(ServerPolicy)
        /\ Expired(ServerPolicy)) => ExpiredBlock

\* An expired policy whose allow-lists do not hold the client IP: the
\* block is the expiry's.
C16_Witness ==
    /\ NamesResource
    /\ NoServerPolicy
    /\ Conditional(ResourcePolicy)
    /\ Expired(ResourcePolicy)
    /\ auditCall.ctx.ip = <<192, 168, 1, 1>>
    /\ ResourcePolicy.allowedIps = <<<<10, 0, 0, 5>>>>
    /\ ResourcePolicy.allowedIpRanges = <<[addr |-> <<10, 0, 0, 0>>, bits |-> 24]>>
    /\ ExpiredBlock

\* Bit k (1 is the most significant, 32 the least) of an IPv4 address.
Bit(ip, k) == (ip[((k - 1) \div 8) + 1] \div Pow2(7 - ((k - 1) % 8))) % 2

\* The top b bits of the two addresses are equal.
SamePrefix(y, x, b) == \A k \in 1..b : Bit(y, k) = Bit(x, k)

\* The client IP equals an allowed IP or lies in an allowed CIDR range.
IpListed(policy) ==
    \/ \E i \in DOMAIN policy.allowedIps : policy.allowedIps[i] = auditCall.ctx.ip
    \/ \E i \in DOMAIN policy.allowedIpRanges :
          SamePrefix(auditCall.ctx.ip, policy.allowedIpRanges[i].addr,
                     policy.allowedIpRanges[i].bits)

IpBlock ==
    /\ ~auditCall.result.allowed
    /\ auditCall.result.reason = <<"Client IP is not in the allowed list">>

\* The context of the call with whitelistedEndpoints emptied everywhere.
WithoutEndpoints(ctx) ==
    [ctx EXCEPT !.auditPolicies =
        [k \in DOMAIN ctx.auditPolicies |->
            [ctx.auditPolicies[k] EXCEPT !.whitelistedEndpoints = <<>>]]]

\* C17: for an unexpired 'conditionally approved' policy with approval
\* conditions the request is blocked on IP grounds exactly when the client
\* IP is set, allowedIps or allowedIpRanges is non-empty, and the IP equals
\* no allowed IP and lies in no allowed range; in every other case,
\* an absent client IP included, it is allowed, and whitelistedEndpoints
\* never changes the outcome.
C17_IpBlockExactly ==
    (/\ NamesResource
     /\ NoServerPolicy
     /\ Conditional(ResourcePolicy)
     /\ ~Expired(ResourcePolicy)) =>
        /\ IpBlock <=>
              /\ auditCall.ctx.ip # NoIP
              /\ \/ Len(ResourcePolicy.allowedIps) > 0
                 \/ Len(ResourcePolicy.allowedIpRanges) > 0
              /\ ~IpListed(ResourcePolicy)
        /\ ~IpBlock => auditCall.result.allowed
        /\ auditCall.result
              = auditValidateRequest(auditCall.payload,
                                     WithoutEndpoints(auditCall.ctx))

\* An IP that only a CIDR range admits is allowed, under a policy that
\* names whitelisted endpoints.
C17_Witness ==
    /\ NamesResource
    /\ NoServerPolicy
    /\ Conditional(ResourcePolicy)
    /\ ~Expired(ResourcePolicy)
    /\ auditCall.ctx.ip = <<10, 0, 1, 5>>
    /\ Len(ResourcePolicy.allowedIps) > 0
    /\ Len(ResourcePolicy.allowedIpRanges) = 2
    /\ Len(ResourcePolicy.whitelistedEndpoints) > 0
    /\ auditCall.result.allowed

\* The server-level policy applies to the call and blocks it.
ServerBlocks ==
    /\ auditCall.ctx.mcpServerName # ""
    /\ ServerPolicy.present
    /\ ~validateWithPolicy(ServerPolicy, auditCall.ctx).allowed

\* C18: when mcpServerName is set and the audit map holds a blocking policy
\* under the lowercased server name, the audit validator returns that block
\* for every request that names a resource, even when the resource's own
\* policy is 'approved'; when the server-level policy allows or is absent
\* the decision is the resource-level policy's, or null when the resource
\* has no policy.
C18_ServerBlockFirst ==
    NamesResource =>
        IF ServerBlocks
        THEN auditCall.result = validateWithPolicy(ServerPolicy, auditCall.ctx)
        ELSE IF ~ResourcePolicy.present THEN IsNull(auditCall.result)
        ELSE auditCall.result = validateWithPolicy(ResourcePolicy, auditCall.ctx)

\* The server is rejected and the resource approved: the call is blocked.
C18_Witness ==
    /\ NamesResource
    /\ auditCall.ctx.mcpServerName = "Srv"
    /\ TrimLower(ServerPolicy.remarks) = "rejected"
    /\ TrimLower(ResourcePolicy.remarks) = "approved"
    /\ ~auditCall.result.allowed
    /\ auditCall.result.reason = <<"Resource access has been rejected by Audit Policy">>

(***************************************************************************)
(* Properties of isIPInCIDR                                                *)
(***************************************************************************)

\* C19: for every IPv4 address y, every network address x and every prefix
\* length b in 0..32, isIPInCIDR(y, x/b) is true exactly when the top b
\* bits of y and x are equal; b = 0 matches every address and b = 32
\* matches only x.
C19_CidrIsPrefixEquality ==
    cidrCall.called =>
        /\ cidrCall.result
              <=> SamePrefix(cidrCall.ip, cidrCall.cidr.addr, cidrCall.cidr.bits)
        /\ cidrCall.cidr.bits = 0 => cidrCall.result
        /\ cidrCall.cidr.bits = AddressBits =>
              (cidrCall.result <=> cidrCall.ip = cidrCall.cidr.addr)

\* A prefix length of 0 matches an address whose first bit differs.
C19_Witness ==
    /\ cidrCall.called
    /\ cidrCall.cidr.bits = 0
    /\ cidrCall.ip = <<128, 0, 0, 0>>
    /\ cidrCall.cidr.addr = <<0, 0, 0, 0>>
    /\ cidrCall.result

(***************************************************************************)
(* Properties of the rate-limit validator when the store fails             *)
(***************************************************************************)

\* C20: if a KV read or write fails during a rate-limit check, the
\* rate-limit validator neither raises nor blocks: the request is allowed.
C20_StoreFailureAllows ==
    \A i \in DOMAIN hist :
        hist[i].failed # "" =>
            /\ ~hist[i].raised
            /\ hist[i].result.allowed

(***************************************************************************)
(* Properties of the rate-limit validator's results and writes             *)
(***************************************************************************)

\* C21: every blocked rate-limit result has reset_in_seconds between 1 and
\* windowSeconds inclusive, at whatever instant inside the window the
\* blocked call is made, a call made exactly at resetAt included.
C21_ResetInSecondsInWindow ==
    \A i \in DOMAIN hist :
        (hist[i].applies /\ ~hist[i].raised /\ ~hist[i].result.allowed)
            => /\ hist[i].reset_in_seconds >= 1
               /\ hist[i].reset_in_seconds <= cfg.windowSeconds

(***************************************************************************)
(* Properties of threat reporting and of the metadata auditor              *)
(***************************************************************************)

\* C22: when no threat-backend token is configured, no POST to the threat
\* backend is issued on any path: neither for a blocked or modified request
\* or response, nor for a tool flagged by the metadata auditor.
C22_NoTokenNoPost ==
    /\ (pc = "done" /\ input.tbsToken = "") => reports = 0
    /\ meta.tbsToken = "" => \A i \in DOMAIN meta.reports : meta.reports[i] = <<>>

\* C23: processRequest and processResponse return their result without
\* waiting for the threat POST: whether the POST is pending, succeeds,
\* returns non-2xx or throws, the returned result is the one decided from
\* the validation result and nothing is raised into the caller; and when an
\* execution context is supplied the report's promise is handed to waitUntil.
C23_ReportIsDetached ==
    threatPost.state # "idle" =>
        /\ threatPost.returned
        /\ ~threatPost.raised
        /\ threatPost.promise # "rejected"
        /\ threatPost.procResult = processOutcome(threatPost.result)
        /\ (threatPost.post # "none" /\ threatPost.hasCtx) => threatPost.waitUntil = 1

\* A blocked request was returned while its report's POST is pending and
\* the promise is with waitUntil; the POST may stay pending for ever.
C23_Witness ==
    /\ threatPost.returned
    /\ threatPost.procResult.isBlocked
    /\ threatPost.post = "pending"
    /\ threatPost.hasCtx
    /\ threatPost.waitUntil = 1

\* C24: at every moment of validateToolsAsync at most MAX_CONCURRENT tool
\* validations are in flight, whatever the number of tools and the order
\* in which the LLM calls complete.
C24_AtMostFiveInFlight ==
    /\ Cardinality(InFlightTools) <= MAX_CONCURRENT
    /\ Cardinality(meta.promises) <= MAX_CONCURRENT

\* Five validations are in flight, the sixth tool waits, and later the
\* sixth has been started after one completed.
C24_Witness ==
    /\ Len(meta.tools) > MAX_CONCURRENT
    /\ meta.next > MAX_CONCURRENT
    /\ Cardinality(InFlightTools) = MAX_CONCURRENT

\* C25: for each tool the auditor validates, exactly one threat report
\* (policy_id MCPMaliciousComponent, endpoint <endpoint>/tools/list/<name>,
\* response holding only that tool) is issued if maliciousMatchScore > 0.75
\* or toolNameDescriptionMatchScore < 0.7, and none otherwise: the scores
\* 0.75 and 0.7 do not report, and isMalicious alone triggers no report.
C25_ReportIffOverThreshold ==
    \A i \in DOMAIN meta.answer :
        meta.answer[i].kind = "ok" =>
            IF \/ meta.answer[i].maliciousMatchScore > MaliciousThreshold
               \/ meta.answer[i].toolNameDescriptionMatchScore < MatchThreshold
            THEN /\ Len(meta.reports[i]) = 1
                 /\ meta.reports[i][1].policy_id = "MCPMaliciousComponent"
                 /\ meta.reports[i][1].endpoint =
                        <<MetaEndpoint, "/tools/list/", meta.tools[i].name>>
                 /\ meta.reports[i][1].responseTools = <<meta.tools[i]>>
            ELSE meta.reports[i] = <<>>

\* One tool was answered with isMalicious and the scores 0.75 and 0.7 and
\* is not reported; another was answered over a threshold and is.
C25_Witness ==
    /\ \E i \in DOMAIN meta.answer :
        /\ meta.answer[i] = LLMAnswer("ok", TRUE, MaliciousThreshold, MatchThreshold)
        /\ meta.reports[i] = <<>>
        /\ meta.phase[i] = "done"
    /\ \E i \in DOMAIN meta.answer :
        /\ meta.answer[i].kind = "ok"
        /\ meta.answer[i].maliciousMatchScore > MaliciousThreshold
        /\ Len(meta.reports[i]) = 1
        /\ meta.phase[i] = "done"

(***************************************************************************)
(* Properties of the policy-manager fetches                                *)
(***************************************************************************)

\* C26: fetchMcpAuditInfo never throws: on a non-2xx response and on any
\* network or parse error it returns an empty map; fetchGuardrailPolicies
\* throws on a non-2xx response and the error reaches its caller.
C26_AuditFetchNeverThrows ==
    fetchCall.state = "done" =>
        /\ fetchCall.fn = "fetchMcpAuditInfo" =>
                /\ ~fetchCall.threw
                /\ fetchCall.response # "ok" => fetchCall.auditPolicies = <<>>
        /\ (fetchCall.fn = "fetchGuardrailPolicies" /\ fetchCall.response = "non2xx")
                => fetchCall.threw

\* The audit fetch met a network error and returned the empty map.
C26_Witness ==
    /\ fetchCall.state = "done"
    /\ fetchCall.fn = "fetchMcpAuditInfo"
    /\ fetchCall.response = "network"
    /\ ~fetchCall.threw
    /\ fetchCall.auditPolicies = <<>>

\* C27: every key of the map returned by the audit-policy fetch is the
\* lowercased resourceName of the policy stored under it, for resource
\* names with upper-case letters as for all-lower-case ones.
C27_KeysAreLowercased ==
    \A key \in DOMAIN fetchCall.auditPolicies :
        key = LowerName(fetchCall.auditPolicies[key].resourceName)

(***************************************************************************)
(* Properties of the scanner client                                        *)
(***************************************************************************)

\* C28: for a text longer than 1 MiB the scan issues no POST for any of
\* the requested scanners and waits for none: every call has already
\* failed when the scan starts.
C28_LongTextNoPost ==
    (pc # "idle" /\ scanText.long) =>
        /\ posts = 0
        /\ pc # "scanning"
        /\ \A i \in DOMAIN calls : calls[i].state = "threw"

\* A scan of a long text with at least one requested scanner has finished.
C28_Witness ==
    /\ pc = "done"
    /\ scanText.long
    /\ Len(tasks) > 0
    /\ Len(calls) = Len(tasks)
    /\ posts = 0

(***************************************************************************)
(* Properties of the ingress worker                                        *)
(***************************************************************************)

\* C29: when ENABLE_MCP_GUARDRAILS is not "true", no ingress endpoint
\* fetches policies or runs any validator: /api/ingestData only forwards
\* the batch, and /api/validate/request and /api/validate/response
\* validate nothing.
C29_FlagOffNoValidation ==
    ingress.flag # "true" =>
        /\ ingress.fetched = {}
        /\ ingress.validated = 0

(***************************************************************************)
(* Properties of the rate-limit validator's writes                         *)
(***************************************************************************)

\* C30: a rate-limit check that is blocked writes nothing to the KV store;
\* an allowed check inside a live window (it read a cell whose resetAt is
\* not before its clock sample) writes, under its own key only, a cell
\* whose count is one more than the count it read and whose resetAt is the
\* resetAt it read; and a check writes a resetAt other than the one it read
\* only when it read no cell or an expired one.
C30_WriteFollowsRead ==
    [][\A c \in DOMAIN rl :
          (rl[c].pc = "put" /\ rl'[c].pc = "idle") =>
              LET data == rl[c].data
                  key == rl[c].key
                  live == data.present /\ rl[c].t <= data.resetAt
                  entry == hist'[Len(hist')]
              IN /\ ~entry.result.allowed => kv' = kv
                 /\ (entry.result.allowed /\ live) =>
                        /\ DOMAIN kv' = DOMAIN kv \cup {key}
                        /\ kv'[key].count = data.count + 1
                        /\ kv'[key].resetAt = data.resetAt
                        /\ \A k \in DOMAIN kv \ {key} : kv'[k] = kv[k]
                 /\ (kv' # kv /\ kv'[key].resetAt # data.resetAt) => ~live]_vars

\* One check was blocked and wrote nothing, and another, allowed inside a
\* live window, wrote the count it read plus one at the resetAt it read.
C30_Witness ==
    /\ mode = "rlc"
    /\ \E i, j \in DOMAIN hist :
        /\ hist[i].applies /\ ~hist[i].result.allowed /\ ~hist[i].put
        /\ hist[j].applies /\ hist[j].result.allowed /\ hist[j].put
        /\ hist[j].read.present
        /\ hist[j].t <= hist[j].read.resetAt
        /\ hist[j].count = hist[j].read.count + 1
        /\ hist[j].resetAt = hist[j].read.resetAt

(***************************************************************************)
(* Properties of the metadata auditor's termination                        *)
(***************************************************************************)

\* validateToolsAsync has entered its loop over the tools.
ToolsStarted == meta.state \in {"loop", "race", "resume", "all"}

\* validateToolsAsync has returned, every tool of the list has had its one
\* validateTool call and every call has completed.
ToolsFinished ==
    /\ meta.state = "done"
    /\ meta.next = Len(meta.tools)
    /\ meta.promises = {}
    /\ \A i \in DOMAIN meta.tools : meta.phase[i] = "done"

NoReportInFlight == \A i \in DOMAIN meta.phase : meta.phase[i] # "report"

\* C31 as stated: if every LLM call eventually completes, validateToolsAsync
\* eventually finishes with one validation started for each tool of the
\* list, an LLM error or unparsable answer for a tool stopping neither the
\* validation of the other tools nor the call.
C31_FinishesIfLLMCompletes == ToolsStarted ~> ToolsFinished

\* C31 as amended: the same, if every threat-report POST of a flagged tool
\* eventually completes as well (no report stays in flight for ever).
C31_FinishesIfReportsComplete ==
    ([]<>NoReportInFlight) => (ToolsStarted ~> ToolsFinished)

\* More tools than MAX_CONCURRENT, the LLM call of every one of them
\* failed, and the call has finished with every tool validated.
C31_Witness ==
    /\ mode = "metalive"
    /\ ToolsFinished
    /\ Len(meta.tools) > MAX_CONCURRENT
    /\ \A i \in DOMAIN meta.tools : meta.answer[i] = LLMFailure

(***************************************************************************)
(* Properties of the scan's result order                                   *)
(***************************************************************************)

\* The scanner calls that were answered with a rejection of the text.
RejectingCalls ==
    {i \in DOMAIN calls : calls[i].state = "fulfilled" /\ ~calls[i].result.is_valid}

FirstRejecting == CHOOSE i \in RejectingCalls : \A j \in RejectingCalls : i <= j

\* C32: the results handed to the orchestrator are in scanner-task order in
\* whatever order the calls completed, so after a scan the decision is a
\* block exactly when some call rejected the text, and the block's reason
\* and metadata name the rejecting scanner that comes first in task order.
C32_FirstRejectingScannerNamed ==
    (pc = "done" /\ Len(calls) > 0 /\ ~threw) =>
        /\ scanResp.results = Fulfilled(calls, 1)
        /\ IF RejectingCalls = {} THEN valResult.allowed
           ELSE /\ ~valResult.allowed
                /\ valResult.scanner = tasks[FirstRejecting].scanner_name
                /\ valResult.risk_score = calls[FirstRejecting].result.risk_score
                /\ valResult.reason =
                       <<"Blocked by scanner: ", tasks[FirstRejecting].scanner_name,
                         " (risk score: ", calls[FirstRejecting].result.risk_score, ")">>

\* Two different scanners rejected the text and the block names the first.
C32_Witness ==
    /\ pc = "done"
    /\ ~threw
    /\ \E i, j \in RejectingCalls :
          /\ i < j
          /\ tasks[i].scanner_name # tasks[j].scanner_name
          /\ valResult.scanner = tasks[i].scanner_name
    /\ ~valResult.allowed

(***************************************************************************)
(* Properties of a conditional approval without conditions                 *)
(***************************************************************************)

\* A 'conditionally approved' policy that carries no approvalConditions.
Unconditioned(policy) ==
    /\ policy.present
    /\ TrimLower(policy.remarks) = "conditionally approved"
    /\ ~policy.hasConditions

NoConditionsBlock ==
    /\ ~auditCall.result.allowed
    /\ auditCall.result.reason = <<"No approval conditions defined">>
    /\ auditCall.result.policy_id = AUDIT_POLICY_CATEGORY

\* C33: a 'conditionally approved' audit policy that carries no
\* approvalConditions blocks the request with reason 'No approval
\* conditions defined' and policy_id 'AuditPolicy', as the resource's policy
\* and as the server's; the request is never allowed under it.
C33_NoConditionsBlocks ==
    NamesResource =>
        /\ (NoServerPolicy /\ Unconditioned(ResourcePolicy)) => NoConditionsBlock
        /\ (auditCall.ctx.mcpServerName # "" /\ Unconditioned(ServerPolicy))
                => NoConditionsBlock
        /\ Unconditioned(ResourcePolicy) => ~auditCall.result.allowed

\* The resource's policy has no conditions and the call, from any client
\* and at any time, is blocked for that.
C33_Witness ==
    /\ NamesResource
    /\ NoServerPolicy
    /\ Unconditioned(ResourcePolicy)
    /\ auditCall.ctx.ip = ClientIP
    /\ NoConditionsBlock

(***************************************************************************)
(* Properties of the audit step inside validateRequest                     *)
(***************************************************************************)

\* The call is a request that reaches the validator, whose audit step made
\* a decision, and the decision allows.
AuditAllowed ==
    /\ pc # "idle"
    /\ input.side = "request"
    /\ Validates(input)
    /\ input.payload.kind # "empty"
    /\ input.ctx.hasAuditRules
    /\ ~auditThrows(input.payload)
    /\ ~IsNull(auditValidateRequest(input.payload, input.ctx))
    /\ auditValidateRequest(input.payload, input.ctx).allowed

\* C34: an audit decision that allows (remarks 'approved', unknown remarks,
\* or a conditional approval whose conditions pass) does not exempt the
\* request from the guardrails: the user-controlled fields are extracted,
\* one scanner call is issued for each scanner task of the policies, and a
\* scanner's rejection blocks the request.
C34_AuditAllowStillScans ==
    AuditAllowed =>
        /\ scanText = extractUserControlledFields(input.payload)
        /\ scanText # NoText =>
              /\ tasks = collectScannerTasks(input.policies, 1, "request")
              /\ Len(calls) = Len(tasks)
              /\ ~scanText.long => posts = Len(tasks)
        /\ (pc = "done" /\ RejectingCalls # {}) => ~valResult.allowed

\* A conditional approval passed, and the scanner rejected the request.
C34_Witness ==
    /\ AuditAllowed
    /\ pc = "done"
    /\ TrimLower(Lookup(input.ctx.auditPolicies,
                        extractResourceName(input.payload)).remarks)
          = "conditionally approved"
    /\ RejectingCalls # {}
    /\ ~valResult.allowed
    /\ valResult.scanner = "PromptInjection"

(***************************************************************************)
(* Properties of the collection of scanner tasks                           *)
(***************************************************************************)

\* The rules of a side of a policy that are of type harmfulCategories or
\* promptAttacks.
ScannedRules(policy, side) ==
    {i \in DOMAIN SideRules(policy, side) :
        SideRules(policy, side)[i].type \in {"harmfulCategories", "promptAttacks"}}

RECURSIVE ScannedRuleCount(_, _, _)
ScannedRuleCount(policies, i, side) ==
    IF i > Len(policies) THEN 0
    ELSE (IF policies[i].active
          THEN Cardinality(ScannedRules(policies[i], side)) ELSE 0)
         + ScannedRuleCount(policies, i + 1, side)

C36_ResponseNeverScanned ==
    fetchCall.state = "validated" =>
        /\ fetchCall.outcome.kind = "return"
        /\ fetchCall.outcome.tasks = <<>>
        /\ fetchCall.outcome.result.allowed
        /\ ~fetchCall.outcome.result.modified

\* An active policy applied on responses, with both content filters, two
\* denied topics, two PII types and two regex patterns: the response with an
\* email address in it is allowed unmodified.
C36_Witness ==
    /\ fetchCall.state = "validated"
    /\ Len(fetchCall.validated) = 1
    /\ fetchCall.validated[1].active
    /\ Len(fetchCall.validated[1].responsePayload) = 6
    /\ fetchCall.list[1].harmfulCategories /\ fetchCall.list[1].promptAttacks
    /\ fetchCall.payload.content = PII
    /\ fetchCall.outcome.result.allowed
    /\ ~fetchCall.outcome.result.modified

(***************************************************************************)
(* Properties of the ProcessResult                                         *)
(***************************************************************************)

\* C37: every ProcessResult returned by processRequest or processResponse
\* has isBlocked = not shouldForward, has a blockedResponse exactly when
\* isBlocked is true, and never has both isBlocked true and a
\* modifiedPayload.
C37_ProcessResultConsistent ==
    threatPost.returned =>
        /\ threatPost.procResult.isBlocked = ~threatPost.procResult.shouldForward
        /\ threatPost.procResult.hasBlockedResponse = threatPost.procResult.isBlocked
        /\ ~(threatPost.procResult.isBlocked
             /\ threatPost.procResult.modifiedPayload # NoText)

\* The three kinds of result have each been returned: here a blocked one,
\* from a validation result that denies.
C37_Witness ==
    /\ threatPost.returned
    /\ ~threatPost.result.allowed
    /\ threatPost.procResult.isBlocked
    /\ threatPost.procResult.hasBlockedResponse
    /\ ~threatPost.procResult.shouldForward
    /\ threatPost.procResult.modifiedPayload = NoText

(***************************************************************************)
(* Properties of the report body                                           *)
(***************************************************************************)

\* C38: the threat report for a blocked request carries the BlockedResponse
\* JSON as its responsePayload and the original request payload as its
\* requestPayload, also when the response half of the record has overwritten
\* the same validation context while the report was in flight.
C38_ReportCarriesBlockedResponse ==
    (/\ threatPost.side = "request"
     /\ threatPost.procResult.isBlocked
     /\ threatPost.post \in {"ok", "non2xx"}) =>
        /\ threatPost.delivered.responsePayload = "blockedResponse"
        /\ threatPost.delivered.requestPayload = "rawRequest"

\* The report of a blocked request reached the backend after the response
\* half had put the record's response payload into the context.
C38_Witness ==
    /\ threatPost.side = "request"
    /\ threatPost.procResult.isBlocked
    /\ threatPost.post = "ok"
    /\ threatPost.responseHalf
    /\ threatPost.valCtx.responsePayload = "rawResponse"
    /\ threatPost.delivered.responsePayload = "blockedResponse"
    /\ threatPost.delivered.requestPayload = "rawRequest"

(***************************************************************************)
(* Properties of the rate-limit key                                        *)
(***************************************************************************)

\* C39: two rate-limited calls share a KV cell only if they resolve to the
\* same sequence of identifier parts: under one identifierTypes list,
\* distinct sequences of part values never map to the same "ratelimit:" key,
\* part values with ":" in them included.
C39_DistinctPartsDistinctKeys ==
    mode = "rlk" =>
        \A i, j \in DOMAIN hist :
            hist[i].key = hist[j].key => hist[i].parts = hist[j].parts

\* Two calls with different parts were counted in one cell: the second read
\* the count the first had written.
C39_SharedCell ==
    /\ mode = "rlk"
    /\ Len(hist) = 2
    /\ hist[1].parts # hist[2].parts
    /\ hist[1].key = hist[2].key
    /\ hist[2].read.present
    /\ hist[2].count = 2

====
